---- MODULE Spec2Model ----
(***************************************************************************)
(* The simulation engine of src/src/GameOfLife.ts (class GameOfLife): a    *)
(* rows x cols boolean grid, a birth and a survival rule set, and the      *)
(* operations that read and change them; and the controller (class        *)
(* GameController) that holds an engine: its run loop, generation counter, *)
(* speed, zoom and size controls, rule controls, canvas and resize         *)
(* handles.  Rendering (CanvasRenderer) and the page's markup are not      *)
(* modelled: a handler's pointer position and slider value are inputs of   *)
(* its action.                                                             *)
(*                                                                         *)
(* Coordinates are zero-based as in the source: grid[row][col] with        *)
(* row \in 0..rows-1 and col \in 0..cols-1.  A JavaScript Set<number> is   *)
(* modelled by the sequence of its distinct elements in insertion order,   *)
(* which is the order Array.from(set) yields.                              *)
(***************************************************************************)
EXTENDS Integers, Sequences, FiniteSets

VARIABLES
    rows,          \* GameOfLife.rows     (of this.game, where a controller holds it)
    cols,          \* GameOfLife.cols
    grid,          \* GameOfLife.grid
    birthRule,     \* GameOfLife.birthRule  (insertion-ordered Set)
    survivalRule,  \* GameOfLife.survivalRule (insertion-ordered Set)
    lastOp,        \* the observed call, with its arguments
    pre,           \* grid and rules as they were when that call started
    ret,           \* what that call returned ("void" for a mutator)
    track,         \* history of a glider stamped on an empty grid
    snap,          \* a matrix handed out by getGrid(), and what it shares
    twin,          \* a second GameOfLife instance of the same dimensions
    frameInterval, \* GameController.frameInterval, in ms, as a fraction
    controller,    \* the other fields of GameController and its handlers' closures
    page           \* the page: pending animation frames, rules the rule controls chose

vars == <<rows, cols, grid, birthRule, survivalRule, lastOp, pre, ret, track, snap,
          twin, frameInterval, controller, page>>

-----------------------------------------------------------------------------
(* Bounds of the model *)

\* grids of the full engine specification: at most MaxRows x MaxCols, MaxCells cells
MaxRows == 2
MaxCols == 3
MaxCells == 6
\* grids of the generation-advance specifications
StepRows == 3
StepCols == 3
StepCells == 9
\* grids of the block specification, and the live cells set by hand in it
BlockRows == 4
BlockCols == 4
BlockCells == 16
MaxLive == 4
\* grids of the glider specification have GliderMinSide..GliderMaxSide rows and
\* columns; a run makes at most MaxStamps stamps on a cleared grid and at most
\* MaxSteps steps after a stamp
GliderMinSide == 6
GliderMaxSide == 7
MaxStamps == 1
MaxSteps == 5
\* grids of the aliasing specification
AliasRows == 2
AliasCols == 2
AliasCells == 4
\* longest array of counts passed to a rule setter in the rule specification
MaxCounts == 2
\* grids of the two-engine specification
TwinRows == 2
TwinCols == 2
TwinCells == 4

-----------------------------------------------------------------------------
(* Small helpers of the model *)

\* does sequence s hold value x
InSeq(s, x) == \E i \in 1..Len(s) : s[i] = x

\* the values of a sequence, as a set
Range(s) == {s[i] : i \in 1..Len(s)}

\* all sequences over S of length at most n
RECURSIVE SeqsUpTo(_, _)
SeqsUpTo(S, n) ==
    IF n = 0 THEN {<<>>}
    ELSE LET shorter == SeqsUpTo(S, n - 1)
         IN  shorter \cup {Append(s, x) : s \in {t \in shorter : Len(t) = n - 1}, x \in S}

\* the grid dimensions a specification starts from
Dims(maxR, maxC, maxCells) ==
    {d \in (1..maxR) \X (1..maxC) : d[1] * d[2] <= maxCells}

-----------------------------------------------------------------------------
(* JavaScript Set<number> and Array.prototype.sort() *)

\* new Set(counts): the distinct values of counts, first occurrence first
RECURSIVE NewSetFrom(_, _, _)
NewSetFrom(counts, i, acc) ==
    IF i > Len(counts) THEN acc
    ELSE NewSetFrom(counts, i + 1,
                    IF InSeq(acc, counts[i]) THEN acc ELSE Append(acc, counts[i]))

NewSet(counts) == NewSetFrom(counts, 1, <<>>)

\* mutant: only the count inserted first is found
SetHas_firstOnly(s, n) == s # <<>> /\ s[1] = n

\* Set.prototype.has
SetHas(s, n) == InSeq(s, n)

\* String(n) for a non-negative integer: its decimal digits
RECURSIVE NumberToString(_)
NumberToString(n) ==
    IF n < 10 THEN <<n>> ELSE Append(NumberToString(n \div 10), n % 10)

\* a < b for two strings of digits, by UTF-16 code units
RECURSIVE StringLess(_, _)
StringLess(a, b) ==
    IF b = <<>> THEN FALSE
    ELSE IF a = <<>> THEN TRUE
    ELSE IF Head(a) # Head(b) THEN Head(a) < Head(b)
    ELSE StringLess(Tail(a), Tail(b))

\* the default comparison of Array.prototype.sort(): elements are converted
\* to strings and compared as strings
DefaultSortLess(a, b) == StringLess(NumberToString(a), NumberToString(b))

\* insert x into the sorted sequence s, after the elements not greater than it
RECURSIVE SortInsert(_, _)
SortInsert(s, x) ==
    IF s = <<>> THEN <<x>>
    ELSE IF DefaultSortLess(x, Head(s)) THEN <<x>> \o s
    ELSE <<Head(s)>> \o SortInsert(Tail(s), x)

\* arr.sort() with no comparator
RECURSIVE ArraySort(_)
ArraySort(arr) ==
    IF arr = <<>> THEN <<>>
    ELSE SortInsert(ArraySort(SubSeq(arr, 1, Len(arr) - 1)), arr[Len(arr)])

-----------------------------------------------------------------------------
(* The engine's functions, as the source computes them *)

\* mutant: the two default sets taken for each other
DefaultBirthRule_swapped == NewSet(<<2, 3>>)

DefaultBirthRule == NewSet(<<3>>)
DefaultSurvivalRule == NewSet(<<2, 3>>)

\* mutant: Array(cols).fill(true)
createEmptyGrid_filledTrue(R, C) == [r \in 0..(R - 1) |-> [c \in 0..(C - 1) |-> TRUE]]

createEmptyGrid(R, C) == [r \in 0..(R - 1) |-> [c \in 0..(C - 1) |-> FALSE]]

\* mutant: the counts added to the set that was there
setBirthRule_additive(counts) == NewSetFrom(counts, 1, birthRule)

setBirthRule(counts) == NewSet(counts)

\* mutant: the new set built but never stored
setSurvivalRule_dropped(counts) == survivalRule

setSurvivalRule(counts) == NewSet(counts)

getBirthRule(B) == ArraySort(B)

getSurvivalRule(S) == ArraySort(S)

\* mutant: a toroidal grid, coordinates wrapping to the opposite edge
getCell_wrap(g, R, C, row, col) == g[(row + R) % R][(col + C) % C]

getCell(g, R, C, row, col) ==
    IF row < 0 \/ row >= R \/ col < 0 \/ col >= C THEN FALSE
    ELSE g[row][col]

\* mutant: coordinates clamped into the grid instead of dropped
setCell_clamped(g, R, C, row, col, alive) ==
    LET r == IF row < 0 THEN 0 ELSE IF row >= R THEN R - 1 ELSE row
        c == IF col < 0 THEN 0 ELSE IF col >= C THEN C - 1 ELSE col
    IN  [g EXCEPT ![r][c] = alive]

setCell(g, R, C, row, col, alive) ==
    IF row >= 0 /\ row < R /\ col >= 0 /\ col < C
    THEN [g EXCEPT ![row][col] = alive]
    ELSE g

\* mutant: the cell set alive instead of inverted
toggleCell_setsAlive(g, R, C, row, col) ==
    IF row >= 0 /\ row < R /\ col >= 0 /\ col < C
    THEN [g EXCEPT ![row][col] = TRUE]
    ELSE g

toggleCell(g, R, C, row, col) ==
    IF row >= 0 /\ row < R /\ col >= 0 /\ col < C
    THEN [g EXCEPT ![row][col] = ~g[row][col]]
    ELSE g

\* the loops over dr and dc, flattened: k = 3 * (dr + 1) + (dc + 1)
RECURSIVE countNeighborsFrom(_, _, _, _, _, _)
countNeighborsFrom(g, R, C, row, col, k) ==
    IF k > 8 THEN 0
    ELSE LET dr == (k \div 3) - 1
             dc == (k % 3) - 1
             here == IF dr = 0 /\ dc = 0 THEN 0
                     ELSE IF getCell(g, R, C, row + dr, col + dc) THEN 1 ELSE 0
         IN  here + countNeighborsFrom(g, R, C, row, col, k + 1)

\* mutant: neighbours beyond an edge taken from the opposite edge
RECURSIVE countNeighborsWrapFrom(_, _, _, _, _, _)
countNeighborsWrapFrom(g, R, C, row, col, k) ==
    IF k > 8 THEN 0
    ELSE LET dr == (k \div 3) - 1
             dc == (k % 3) - 1
             here == IF dr = 0 /\ dc = 0 THEN 0
                     ELSE IF g[(row + dr + R) % R][(col + dc + C) % C] THEN 1 ELSE 0
         IN  here + countNeighborsWrapFrom(g, R, C, row, col, k + 1)

countNeighbors_toroidal(g, R, C, row, col) == countNeighborsWrapFrom(g, R, C, row, col, 0)

\* mutant: the cell itself counted among its neighbours
countNeighbors_countsSelf(g, R, C, row, col) ==
    countNeighborsFrom(g, R, C, row, col, 0) + (IF g[row][col] THEN 1 ELSE 0)

countNeighbors(g, R, C, row, col) == countNeighborsFrom(g, R, C, row, col, 0)

\* the inner loop, over col: counts and isAlive are read from this.grid
\* (g); results go to row `row` of newGrid (newRow)
RECURSIVE nextGenerationRow(_, _, _, _, _, _, _, _)
nextGenerationRow(g, newRow, R, C, B, S, row, col) ==
    IF col >= C THEN newRow
    ELSE LET neighbors == countNeighbors(g, R, C, row, col)
             isAlive == g[row][col]
             cell == IF isAlive THEN SetHas(S, neighbors) ELSE SetHas(B, neighbors)
         IN  nextGenerationRow(g, [newRow EXCEPT ![col] = cell], R, C, B, S, row, col + 1)

\* the outer loop, over row
RECURSIVE nextGenerationFrom(_, _, _, _, _, _, _)
nextGenerationFrom(g, newGrid, R, C, B, S, row) ==
    IF row >= R THEN newGrid
    ELSE nextGenerationFrom(g,
             [newGrid EXCEPT ![row] = nextGenerationRow(g, newGrid[row], R, C, B, S, row, 0)],
             R, C, B, S, row + 1)

\* mutant: the step written in place, so that a cell visited later counts
\* neighbours already updated in the same step
RECURSIVE nextGenerationInPlaceFrom(_, _, _, _, _, _)
nextGenerationInPlaceFrom(g, R, C, B, S, idx) ==
    IF idx >= R * C THEN g
    ELSE LET row == idx \div C
             col == idx % C
             neighbors == countNeighbors(g, R, C, row, col)
             cell == IF g[row][col] THEN SetHas(S, neighbors) ELSE SetHas(B, neighbors)
         IN  nextGenerationInPlaceFrom([g EXCEPT ![row][col] = cell], R, C, B, S, idx + 1)

nextGeneration_inPlace(g, R, C, B, S) == nextGenerationInPlaceFrom(g, R, C, B, S, 0)

\* mutant: the two rule sets taken for each other
nextGeneration_rulesSwapped(g, R, C, B, S) ==
    nextGenerationFrom(g, createEmptyGrid(R, C), R, C, S, B, 0)

nextGeneration(g, R, C, B, S) ==
    nextGenerationFrom(g, createEmptyGrid(R, C), R, C, B, S, 0)

\* mutant: only the first row replaced by dead cells
clear_firstRowOnly(R, C) == [grid EXCEPT ![0] = [c \in 0..(C - 1) |-> FALSE]]

clear(R, C) == createEmptyGrid(R, C)

\* the loops over row and col, flattened: idx = row * C + col
RECURSIVE getPopulationFrom(_, _, _, _)
getPopulationFrom(g, R, C, idx) ==
    IF idx >= R * C THEN 0
    ELSE (IF g[idx \div C][idx % C] THEN 1 ELSE 0) + getPopulationFrom(g, R, C, idx + 1)

getPopulation(g, R, C) == getPopulationFrom(g, R, C, 0)

\* mutant: the two fields taken for each other
getDimensions_swapped(R, C) == [rows |-> C, cols |-> R]

getDimensions(R, C) == [rows |-> R, cols |-> C]

\* Math.random() < probability, for a probability given in percent:
\* Math.random() lies in [0, 1), so the comparison is always false for
\* probability <= 0, always true for probability >= 1, and either otherwise
RandomOutcomes(percent) ==
    IF percent <= 0 THEN {FALSE}
    ELSE IF percent >= 100 THEN {TRUE}
    ELSE BOOLEAN

\* mutant: cells only ever set alive, a live cell never written dead
randomize_keepsLive(R, C, percent) ==
    {[r \in 0..(R - 1) |-> [c \in 0..(C - 1) |-> grid[r][c] \/ m[r][c]]] :
        m \in [0..(R - 1) -> [0..(C - 1) -> RandomOutcomes(percent)]]}

\* the grids randomize(probability) can leave behind
randomize(R, C, percent) ==
    [0..(R - 1) -> [0..(C - 1) -> RandomOutcomes(percent)]]

\* mutant: the template mirrored left to right
GliderPattern_mirrored ==
  << <<0,1,0>>,
     <<1,0,0>>,
     <<1,1,1>> >>

GliderPattern ==
  << <<0,1,0>>,
     <<0,0,1>>,
     <<1,1,1>> >>

GunPattern ==
  << <<0,0,0,0,0,0,0,0,0,0,0,0,0,0,0,0,0,0,0,0,0,0,0,0,1,0,0,0,0,0,0,0,0,0,0,0>>,
     <<0,0,0,0,0,0,0,0,0,0,0,0,0,0,0,0,0,0,0,0,0,0,1,0,1,0,0,0,0,0,0,0,0,0,0,0>>,
     <<0,0,0,0,0,0,0,0,0,0,0,0,1,1,0,0,0,0,0,0,1,1,0,0,0,0,0,0,0,0,0,0,0,0,1,1>>,
     <<0,0,0,0,0,0,0,0,0,0,0,1,0,0,0,1,0,0,0,0,1,1,0,0,0,0,0,0,0,0,0,0,0,0,1,1>>,
     <<1,1,0,0,0,0,0,0,0,0,1,0,0,0,0,0,1,0,0,0,1,1,0,0,0,0,0,0,0,0,0,0,0,0,0,0>>,
     <<1,1,0,0,0,0,0,0,0,0,1,0,0,0,1,0,1,1,0,0,0,0,1,0,1,0,0,0,0,0,0,0,0,0,0,0>>,
     <<0,0,0,0,0,0,0,0,0,0,1,0,0,0,0,0,1,0,0,0,0,0,0,0,1,0,0,0,0,0,0,0,0,0,0,0>>,
     <<0,0,0,0,0,0,0,0,0,0,0,1,0,0,0,1,0,0,0,0,0,0,0,0,0,0,0,0,0,0,0,0,0,0,0,0>>,
     <<0,0,0,0,0,0,0,0,0,0,0,0,1,1,0,0,0,0,0,0,0,0,0,0,0,0,0,0,0,0,0,0,0,0,0,0>> >>

\* the (row, col) pairs the stamping loops visit with a truthy template
\* entry, in the loops' order (the template is indexed from 0 in the source):
\* the inner loop over col, then the outer loop over row
RECURSIVE PatternRowCells(_, _, _)
PatternRowCells(pattern, row, col) ==
    IF col >= Len(pattern[row + 1]) THEN <<>>
    ELSE (IF pattern[row + 1][col + 1] # 0 THEN << <<row, col>> >> ELSE <<>>)
         \o PatternRowCells(pattern, row, col + 1)

RECURSIVE PatternCellsFrom(_, _)
PatternCellsFrom(pattern, row) ==
    IF row >= Len(pattern) THEN <<>>
    ELSE PatternRowCells(pattern, row, 0) \o PatternCellsFrom(pattern, row + 1)

GliderCells == PatternCellsFrom(GliderPattern, 0)
GunCells == PatternCellsFrom(GunPattern, 0)

\* this.setCell(startRow + row, startCol + col, true) for each visited pair
RECURSIVE stampFrom(_, _, _, _, _, _, _)
stampFrom(g, R, C, cells, startRow, startCol, i) ==
    IF i > Len(cells) THEN g
    ELSE stampFrom(setCell(g, R, C, startRow + cells[i][1], startCol + cells[i][2], TRUE),
                   R, C, cells, startRow, startCol, i + 1)

\* mutant: every template entry written, dead ones included
RECURSIVE overwriteFrom(_, _, _, _, _, _, _)
overwriteFrom(g, R, C, pattern, startRow, startCol, idx) ==
    LET width == Len(pattern[1])
    IN  IF idx >= Len(pattern) * width THEN g
        ELSE LET row == idx \div width
                 col == idx % width
             IN  overwriteFrom(setCell(g, R, C, startRow + row, startCol + col,
                                       pattern[row + 1][col + 1] # 0),
                               R, C, pattern, startRow, startCol, idx + 1)

addGlider_overwrite(g, R, C, startRow, startCol) ==
    overwriteFrom(g, R, C, GliderPattern, startRow, startCol, 0)

addGlider(g, R, C, startRow, startCol) ==
    stampFrom(g, R, C, GliderCells, startRow, startCol, 1)

addGliderGun(g, R, C, startRow, startCol) ==
    stampFrom(g, R, C, GunCells, startRow, startCol, 1)

\* this.grid.map(row => [...row]): a new outer array of new row arrays.  The
\* result names the matrix and which of its arrays are the engine's own.
\* mutant: a new outer array holding the engine's own rows ([...this.grid])
getGrid_shallow(g) ==
    [matrix      |-> g,
     sharesOuter |-> FALSE,
     sharesRow   |-> [r \in DOMAIN g |-> TRUE]]

getGrid(g) ==
    [matrix      |-> [r \in DOMAIN g |-> [c \in DOMAIN g[r] |-> g[r][c]]],
     sharesOuter |-> FALSE,
     sharesRow   |-> [r \in DOMAIN g |-> FALSE]]

-----------------------------------------------------------------------------
(* The controller's frame interval (class GameController).  The interval   *)
(* is a number of milliseconds; 1000 / speed need not be whole, so it is   *)
(* kept as the fraction num / den in lowest terms.                         *)

RECURSIVE GCD(_, _)
GCD(a, b) == IF b = 0 THEN a ELSE GCD(b, a % b)

\* the fraction n / d, d > 0, in lowest terms
Fraction(n, d) ==
    LET g == GCD(IF n < 0 THEN -n ELSE n, d)
    IN  [num |-> n \div g, den |-> d \div g]

\* the fraction a is less than the fraction b
FractionLess(a, b) == a.num * b.den < b.num * a.den

\* this.frameInterval = 1000 / speed
updateSpeed(speed) == Fraction(1000, speed)

\* this.frameInterval = Math.max(16, this.frameInterval - 20)
increaseSpeed(fi) ==
    LET lower == Fraction(fi.num - 20 * fi.den, fi.den)
    IN  IF FractionLess(lower, Fraction(16, 1)) THEN Fraction(16, 1) ELSE lower

\* this.frameInterval = Math.min(1000, this.frameInterval + 20)
decreaseSpeed(fi) ==
    LET higher == Fraction(fi.num + 20 * fi.den, fi.den)
    IN  IF FractionLess(Fraction(1000, 1), higher) THEN Fraction(1000, 1) ELSE higher

\* the smaller and the larger of two fractions
FractionMin(a, b) == IF FractionLess(b, a) THEN b ELSE a
FractionMax(a, b) == IF FractionLess(a, b) THEN b ELSE a

-----------------------------------------------------------------------------
(* The controller's run loop (class GameController).  A handler works on   *)
(* the controller's fields c and on the set frames of the handles of the   *)
(* animation frame callbacks the page has pending; it returns both, and in *)
(* calls the number of game.nextGeneration() calls it made.                *)

\* private animationId: number | null = null; the handles that
\* requestAnimationFrame returns are positive
NoHandle == 0

\* the handle requestAnimationFrame returns: one that is not pending and
\* that the controller does not hold
NewHandle(c, frames) ==
    CHOOSE h \in 1..(Cardinality(frames) + 2) : h \notin frames /\ h # c.animationId

\* elapsed >= this.frameInterval, elapsed in whole milliseconds
Due(elapsed, fi) == ~FractionLess(Fraction(elapsed, 1), fi)

\* start() sets lastFrameTime = performance.now() and calls gameLoop(),
\* which reads performance.now() again at once: no time has elapsed
StartElapsed == 0

\* mutant: a due frame steps the engine without counting the generation
gameLoop_uncounted(c, frames, due) ==
    IF ~c.isRunning THEN [c |-> c, frames |-> frames, calls |-> 0]
    ELSE LET h == NewHandle(c, frames)
         IN  [c      |-> [c EXCEPT !.animationId = h],
              frames |-> frames \cup {h},
              calls  |-> IF due THEN 1 ELSE 0]

\* gameLoop(); due says that elapsed >= this.frameInterval
gameLoop(c, frames, due) ==
    IF ~c.isRunning THEN [c |-> c, frames |-> frames, calls |-> 0]
    ELSE LET stepped == IF due THEN [c EXCEPT !.generation = @ + 1] ELSE c
             h == NewHandle(stepped, frames)
         IN  [c      |-> [stepped EXCEPT !.animationId = h],
              frames |-> frames \cup {h},
              calls  |-> IF due THEN 1 ELSE 0]

\* mutant: no early return while the loop is running
start_unguarded(c, frames, fi) ==
    gameLoop([c EXCEPT !.isRunning = TRUE], frames, Due(StartElapsed, fi))

\* start()
start(c, frames, fi) ==
    IF c.isRunning THEN [c |-> c, frames |-> frames, calls |-> 0]
    ELSE gameLoop([c EXCEPT !.isRunning = TRUE], frames, Due(StartElapsed, fi))

\* stop(): cancelAnimationFrame(this.animationId) when it is not null
stop(c, frames) ==
    [c      |-> [c EXCEPT !.isRunning = FALSE, !.animationId = NoHandle],
     frames |-> IF c.animationId # NoHandle THEN frames \ {c.animationId} ELSE frames,
     calls  |-> 0]

\* Math.floor(Math.random() * n) + 1 for n = rows - 5 or cols - 5: 1..n when
\* n is positive, and n+1..1 when it is not (Math.random() is in [0, 1))
GliderStarts(n) == IF n > 0 THEN 1..n ELSE (n + 1)..1

\* the copy loop of resizeGrid(rows, cols), one row of the old grid
RECURSIVE resizeGridRow(_, _, _, _, _, _, _)
resizeGridRow(oldGrid, oldC, g, newR, newC, row, col) ==
    IF col >= (IF oldC < newC THEN oldC ELSE newC) THEN g
    ELSE LET copied == IF oldGrid[row][col] THEN setCell(g, newR, newC, row, col, TRUE)
                       ELSE g
         IN  \* setCell keeps the rows of the grid, so the test is true; with
             \* it TLC computes copied before the loop goes on, not after
             IF DOMAIN copied = DOMAIN g
             THEN resizeGridRow(oldGrid, oldC, copied, newR, newC, row, col + 1)
             ELSE copied

RECURSIVE resizeGridFrom(_, _, _, _, _, _, _)
resizeGridFrom(oldGrid, oldR, oldC, g, newR, newC, row) ==
    IF row >= (IF oldR < newR THEN oldR ELSE newR) THEN g
    ELSE LET copied == resizeGridRow(oldGrid, oldC, g, newR, newC, row, 0)
         IN  IF DOMAIN copied = DOMAIN g
             THEN resizeGridFrom(oldGrid, oldR, oldC, copied, newR, newC, row + 1)
             ELSE copied

\* mutant: the new engine is left empty
resizeGrid_noCopy(oldGrid, oldR, oldC, newR, newC) ==
    createEmptyGrid(newR, newC)

\* resizeGrid(rows, cols), here resizeGrid(newR, newC): the grid of the new engine
resizeGrid(oldGrid, oldR, oldC, newR, newC) ==
    resizeGridFrom(getGrid(oldGrid).matrix, oldR, oldC, createEmptyGrid(newR, newC), newR, newC, 0)

\* Math.max(10, Math.min(200, n)) of the resize handles
MinDragSize == 10
MaxDragSize == 200
clampDragSize(n) ==
    LET capped == IF n < MaxDragSize THEN n ELSE MaxDragSize
    IN  IF capped > MinDragSize THEN capped ELSE MinDragSize

\* this.cellSize = Math.max(4, 600 / size)
gridCellSize(size) == FractionMax(Fraction(4, 1), Fraction(600, size))

\* this.cellSize = Math.min(40, this.cellSize + 2)
zoomIn(cellSize) ==
    FractionMin(Fraction(40, 1), Fraction(cellSize.num + 2 * cellSize.den, cellSize.den))

\* this.cellSize = Math.max(4, this.cellSize - 2)
zoomOut(cellSize) ==
    FractionMax(Fraction(4, 1), Fraction(cellSize.num - 2 * cellSize.den, cellSize.den))

-----------------------------------------------------------------------------
(* Inputs the operations are called with *)

\* arrays of counts for the rule setters: the arrays of the controller's
\* presets "conway" and "seeds" (GameOfLife.ts lines 390 and 393)
PresetCounts == {<<3>>, <<2, 3>>, <<2>>, <<>>}

\* probabilities, in percent: below the range, its ends, the default 0.3
\* of randomize, and above the range
ProbPercents == {-50, 0, 30, 100, 150}

\* arrays of counts for the generation-advance specifications: the arrays
\* of the presets "conway", "daynight" and "seeds" (lines 390, 392, 393),
\* and birth or survival without any live neighbour
StepCounts == {<<>>, <<0>>, <<2>>, <<3>>, <<2, 3>>, <<3, 6, 7, 8>>, <<3, 4, 6, 7, 8>>}

\* every cell of the grid
Cells == (0..(rows - 1)) \X (0..(cols - 1))

\* coordinates: every cell, and one step beyond each edge
RowArgs == -1..rows
ColArgs == -1..cols

\* glider offsets: from wholly above/left of the grid to wholly below/right
GliderRowOffsets == -Len(GliderPattern)..rows
GliderColOffsets == -Len(GliderPattern[1])..cols

\* glider-gun offsets that bring different parts of the template over a
\* small grid, or none of it
GunRowOffsets == {-9, -4, -2, 0}
GunColOffsets == {-36, -34, -20, -10, 0}

\* more of them, for the stamping specification
StampGunRowOffsets == {-9, -6, -4, -2, 0, 1}
StampGunColOffsets == {-36, -34, -22, -20, -14, -10, 0, 1}

\* counts for the rule specification: one-digit and two-digit values
RuleCounts == {2, 3, 10}

\* values of the speed slider: "adjustable from 1 to 60 fps" (README.md)
SliderSpeeds == 1..60

-----------------------------------------------------------------------------
(* State after construction, and the operations as actions                 *)
(*                                                                         *)
(* A run is any sequence of calls followed by one observed call: a call    *)
(* made with watch = TRUE records itself in lastOp, the grid and rules it  *)
(* started from in pre, and its result in ret, and ends the run.  Every    *)
(* call in every reachable engine state is observed in some run.           *)
(***************************************************************************)

Snapshot ==
    [rows |-> rows, cols |-> cols, grid |-> grid,
     birthRule |-> birthRule, survivalRule |-> survivalRule, snap |-> snap,
     frameInterval |-> frameInterval, controller |-> controller, page |-> page]

NoOp == [name |-> "none"]
NoTrack == [at |-> <<>>, steps |-> 0, stamps |-> 0]
NoSnap == [taken |-> FALSE]
NoTwin == [built |-> FALSE]

\* private frameInterval: number = 100, as the fraction num / den
InitialFrameInterval == [num |-> 100, den |-> 1]

\* the fields of a new GameController (game and frameInterval apart), and
\* the variables its event handlers close over: isDrawing and lastCell of
\* the canvas handlers, isResizing .. startCols of the resize handles
InitialController ==
    [isRunning   |-> FALSE,
     generation  |-> 0,
     animationId |-> NoHandle,
     cellSize    |-> [num |-> 12, den |-> 1],
     isDrawing   |-> FALSE,
     lastCell    |-> <<-1, -1>>,
     isResizing  |-> FALSE,
     resizeType  |-> "corner",
     startRows   |-> 0,
     startCols   |-> 0]

\* the page as loaded: no animation frame requested, and the rule controls
\* have chosen nothing yet, so the rules in force are the engine's defaults
InitialPage ==
    [frames         |-> {},
     birthChosen    |-> {3},
     survivalChosen |-> {2, 3}]

Running == lastOp.name = "none"

\* the observed call was nextGeneration()
Stepped == lastOp.name = "nextGeneration"

Observe(watch, op, result) ==
    IF watch
    THEN lastOp' = op /\ pre' = Snapshot /\ ret' = result
    ELSE lastOp' = NoOp /\ pre' = NoOp /\ ret' = "void"

\* new GameOfLife(R, C)
Constructed(R, C) ==
    /\ rows = R
    /\ cols = C
    /\ grid = createEmptyGrid(R, C)
    /\ birthRule = DefaultBirthRule
    /\ survivalRule = DefaultSurvivalRule
    /\ lastOp = NoOp
    /\ pre = NoOp
    /\ ret = "void"
    /\ track = NoTrack
    /\ snap = NoSnap
    /\ twin = NoTwin
    /\ frameInterval = InitialFrameInterval
    /\ controller = InitialController
    /\ page = InitialPage

Init == \E d \in Dims(MaxRows, MaxCols, MaxCells) : Constructed(d[1], d[2])

SetBirthRule(counts, watch) ==
    /\ Running
    /\ birthRule' = setBirthRule(counts)
    /\ Observe(watch, [name |-> "setBirthRule", counts |-> counts], "void")
    /\ UNCHANGED <<rows, cols, grid, survivalRule, track, snap, twin, frameInterval,
                   controller, page>>

SetSurvivalRule(counts, watch) ==
    /\ Running
    /\ survivalRule' = setSurvivalRule(counts)
    /\ Observe(watch, [name |-> "setSurvivalRule", counts |-> counts], "void")
    /\ UNCHANGED <<rows, cols, grid, birthRule, track, snap, twin, frameInterval,
                   controller, page>>

GetBirthRule(watch) ==
    /\ Running
    /\ Observe(watch, [name |-> "getBirthRule"], getBirthRule(birthRule))
    /\ UNCHANGED <<rows, cols, grid, birthRule, survivalRule, track, snap, twin, frameInterval,
                   controller, page>>

GetSurvivalRule(watch) ==
    /\ Running
    /\ Observe(watch, [name |-> "getSurvivalRule"], getSurvivalRule(survivalRule))
    /\ UNCHANGED <<rows, cols, grid, birthRule, survivalRule, track, snap, twin, frameInterval,
                   controller, page>>

GetCell(row, col, watch) ==
    /\ Running
    /\ Observe(watch, [name |-> "getCell", row |-> row, col |-> col],
               getCell(grid, rows, cols, row, col))
    /\ UNCHANGED <<rows, cols, grid, birthRule, survivalRule, track, snap, twin, frameInterval,
                   controller, page>>

SetCell(row, col, alive, watch) ==
    /\ Running
    /\ grid' = setCell(grid, rows, cols, row, col, alive)
    /\ Observe(watch, [name |-> "setCell", row |-> row, col |-> col, alive |-> alive],
               "void")
    /\ UNCHANGED <<rows, cols, birthRule, survivalRule, track, snap, twin, frameInterval,
                   controller, page>>

ToggleCell(row, col, watch) ==
    /\ Running
    /\ grid' = toggleCell(grid, rows, cols, row, col)
    /\ Observe(watch, [name |-> "toggleCell", row |-> row, col |-> col], "void")
    /\ UNCHANGED <<rows, cols, birthRule, survivalRule, track, snap, twin, frameInterval,
                   controller, page>>

NextGeneration(watch) ==
    /\ Running
    /\ grid' = nextGeneration(grid, rows, cols, birthRule, survivalRule)
    /\ Observe(watch, [name |-> "nextGeneration"], "void")
    /\ UNCHANGED <<rows, cols, birthRule, survivalRule, track, snap, twin, frameInterval,
                   controller, page>>

Clear(watch) ==
    /\ Running
    /\ grid' = clear(rows, cols)
    /\ Observe(watch, [name |-> "clear"], "void")
    /\ UNCHANGED <<rows, cols, birthRule, survivalRule, track, snap, twin, frameInterval,
                   controller, page>>

Randomize(percent, watch) ==
    /\ Running
    /\ grid' \in randomize(rows, cols, percent)
    /\ Observe(watch, [name |-> "randomize", percent |-> percent], "void")
    /\ UNCHANGED <<rows, cols, birthRule, survivalRule, track, snap, twin, frameInterval,
                   controller, page>>

AddGlider(startRow, startCol, watch) ==
    /\ Running
    /\ grid' = addGlider(grid, rows, cols, startRow, startCol)
    /\ Observe(watch, [name |-> "addGlider", row |-> startRow, col |-> startCol], "void")
    /\ UNCHANGED <<rows, cols, birthRule, survivalRule, track, snap, twin, frameInterval,
                   controller, page>>

AddGliderGun(startRow, startCol, watch) ==
    /\ Running
    /\ grid' = addGliderGun(grid, rows, cols, startRow, startCol)
    /\ Observe(watch, [name |-> "addGliderGun", row |-> startRow, col |-> startCol],
               "void")
    /\ UNCHANGED <<rows, cols, birthRule, survivalRule, track, snap, twin, frameInterval,
                   controller, page>>

GetPopulation(watch) ==
    /\ Running
    /\ Observe(watch, [name |-> "getPopulation"], getPopulation(grid, rows, cols))
    /\ UNCHANGED <<rows, cols, grid, birthRule, survivalRule, track, snap, twin, frameInterval,
                   controller, page>>

GetDimensions(watch) ==
    /\ Running
    /\ Observe(watch, [name |-> "getDimensions"], getDimensions(rows, cols))
    /\ UNCHANGED <<rows, cols, grid, birthRule, survivalRule, track, snap, twin, frameInterval,
                   controller, page>>

GetGrid(watch) ==
    /\ Running
    /\ Observe(watch, [name |-> "getGrid"], getGrid(grid).matrix)
    /\ UNCHANGED <<rows, cols, grid, birthRule, survivalRule, track, snap, twin, frameInterval,
                   controller, page>>

-----------------------------------------------------------------------------
(* Spec: the whole engine, every operation callable in every state *)

Next ==
    \/ \E counts \in PresetCounts, w \in BOOLEAN : SetBirthRule(counts, w)
    \/ \E counts \in PresetCounts, w \in BOOLEAN : SetSurvivalRule(counts, w)
    \/ \E w \in BOOLEAN : GetBirthRule(w)
    \/ \E w \in BOOLEAN : GetSurvivalRule(w)
    \/ \E row \in RowArgs, col \in ColArgs, w \in BOOLEAN : GetCell(row, col, w)
    \/ \E row \in RowArgs, col \in ColArgs, alive \in BOOLEAN, w \in BOOLEAN :
          SetCell(row, col, alive, w)
    \/ \E row \in RowArgs, col \in ColArgs, w \in BOOLEAN : ToggleCell(row, col, w)
    \/ \E w \in BOOLEAN : NextGeneration(w)
    \/ \E w \in BOOLEAN : Clear(w)
    \/ \E percent \in ProbPercents, w \in BOOLEAN : Randomize(percent, w)
    \/ \E sr \in GliderRowOffsets, sc \in GliderColOffsets, w \in BOOLEAN :
          AddGlider(sr, sc, w)
    \/ \E sr \in GunRowOffsets, sc \in GunColOffsets, w \in BOOLEAN :
          AddGliderGun(sr, sc, w)
    \/ \E w \in BOOLEAN : GetPopulation(w)
    \/ \E w \in BOOLEAN : GetDimensions(w)
    \/ \E w \in BOOLEAN : GetGrid(w)

Spec == Init /\ [][Next]_vars

-----------------------------------------------------------------------------
(* SpecStep: generation advance on every grid of up to StepCells cells,    *)
(* under every pair of rule sets the setters build from StepCounts         *)

InitStep == \E d \in Dims(StepRows, StepCols, StepCells) : Constructed(d[1], d[2])

NextStep ==
    \/ \E p \in Cells : SetCell(p[1], p[2], TRUE, FALSE)
    \/ \E counts \in StepCounts : SetBirthRule(counts, FALSE)
    \/ \E counts \in StepCounts : SetSurvivalRule(counts, FALSE)
    \/ \E w \in BOOLEAN : NextGeneration(w)

SpecStep == InitStep /\ [][NextStep]_vars

-----------------------------------------------------------------------------
(* SpecConway: an engine whose rules are never changed *)

NextConway ==
    \/ \E p \in Cells : SetCell(p[1], p[2], TRUE, FALSE)
    \/ \E w \in BOOLEAN : NextGeneration(w)

SpecConway == InitStep /\ [][NextConway]_vars

-----------------------------------------------------------------------------
(* SpecBlock: default rules on grids of up to BlockRows x BlockCols, large *)
(* enough for a 2x2 block that touches no edge; at most MaxLive cells are  *)
(* set by hand                                                             *)

InitBlock == \E d \in Dims(BlockRows, BlockCols, BlockCells) : Constructed(d[1], d[2])

NextBlock ==
    \/ \E p \in Cells :
          /\ getPopulation(grid, rows, cols) < MaxLive
          /\ SetCell(p[1], p[2], TRUE, FALSE)
    \/ \E w \in BOOLEAN : NextGeneration(w)

SpecBlock == InitBlock /\ [][NextBlock]_vars

-----------------------------------------------------------------------------
(* SpecStamp: pattern stamping on every grid of up to StepCells cells *)

NextStamp ==
    \/ \E p \in Cells : SetCell(p[1], p[2], TRUE, FALSE)
    \/ SetSurvivalRule(<<>>, FALSE)
    \/ \E sr \in GliderRowOffsets, sc \in GliderColOffsets, w \in BOOLEAN :
          AddGlider(sr, sc, w)
    \/ \E sr \in StampGunRowOffsets, sc \in StampGunColOffsets, w \in BOOLEAN :
          AddGliderGun(sr, sc, w)

SpecStamp == InitStep /\ [][NextStamp]_vars

-----------------------------------------------------------------------------
(* SpecGlider: gliders stamped on a grid that starts empty, and advanced.  *)
(* track.at is the offset of a glider stamped on an empty grid that has    *)
(* been alone since, track.steps the nextGeneration() calls since the last *)
(* stamp, track.stamps the stamps since the grid was last empty.           *)

GliderSides == GliderMinSide..GliderMaxSide

\* offsets at which the glider and its next phases stay inside the grid
GliderStampOffsets == {0, 1, 2}

InitGlider == \E R \in GliderSides, C \in GliderSides : Constructed(R, C)

StampGlider(startRow, startCol) ==
    /\ track.stamps < MaxStamps
    /\ grid' = addGlider(grid, rows, cols, startRow, startCol)
    /\ track' = [at     |-> IF getPopulation(grid, rows, cols) = 0
                            THEN <<startRow, startCol>> ELSE <<>>,
                 steps  |-> 0,
                 stamps |-> track.stamps + 1]
    /\ UNCHANGED <<rows, cols, birthRule, survivalRule, lastOp, pre, ret, snap, twin, frameInterval,
                   controller, page>>

StepGlider ==
    /\ track.steps < MaxSteps
    /\ grid' = nextGeneration(grid, rows, cols, birthRule, survivalRule)
    /\ track' = [track EXCEPT !.steps = @ + 1]
    /\ UNCHANGED <<rows, cols, birthRule, survivalRule, lastOp, pre, ret, snap, twin, frameInterval,
                   controller, page>>

ClearGlider ==
    /\ grid' = clear(rows, cols)
    /\ track' = NoTrack
    /\ UNCHANGED <<rows, cols, birthRule, survivalRule, lastOp, pre, ret, snap, twin, frameInterval,
                   controller, page>>

NextGlider ==
    \/ \E sr \in GliderStampOffsets, sc \in GliderStampOffsets : StampGlider(sr, sc)
    \/ StepGlider
    \/ ClearGlider

SpecGlider == InitGlider /\ [][NextGlider]_vars

-----------------------------------------------------------------------------
(* SpecRules: the rule setters and getters, with arrays of up to MaxCounts *)
(* counts drawn from RuleCounts, duplicates included                       *)

CountArrays == SeqsUpTo(RuleCounts, MaxCounts)

InitRules == Constructed(1, 1)

NextRules ==
    \/ \E counts \in CountArrays, w \in BOOLEAN : SetBirthRule(counts, w)
    \/ \E counts \in CountArrays, w \in BOOLEAN : SetSurvivalRule(counts, w)
    \/ \E w \in BOOLEAN : GetBirthRule(w)
    \/ \E w \in BOOLEAN : GetSurvivalRule(w)

SpecRules == InitRules /\ [][NextRules]_vars

-----------------------------------------------------------------------------
(* SpecAlias: a caller keeps the matrix getGrid() returned and writes to   *)
(* it, while the engine goes on.  snap.matrix is the caller's matrix;      *)
(* snap.sharesOuter says its outer array is the array this.grid refers to, *)
(* snap.sharesRow[r] that its row r is the array this.grid[r] refers to.   *)
(* A write through an array both sides hold is seen by both.               *)

NoRowShared == [r \in 0..(rows - 1) |-> FALSE]

\* the caller's matrix after the engine wrote v to its own grid[row][col]
SnapAfterEngineWrite(sn, row, col, v) ==
    IF sn.taken /\ sn.sharesRow[row]
    THEN [sn EXCEPT !.matrix[row][col] = v]
    ELSE sn

\* the caller's matrix after the engine wrote the cells of newGrid in place
SnapAfterEngineWrites(sn, newGrid) ==
    IF sn.taken
    THEN [sn EXCEPT !.matrix = [r \in 0..(rows - 1) |->
                                   IF sn.sharesRow[r] THEN newGrid[r] ELSE sn.matrix[r]]]
    ELSE sn

\* the caller's matrix after the engine assigned a new array to this.grid
SnapAfterEngineReplace(sn) ==
    IF sn.taken
    THEN [sn EXCEPT !.sharesOuter = FALSE, !.sharesRow = NoRowShared]
    ELSE sn

\* const m = game.getGrid()
TakeGrid(watch) ==
    /\ Running
    /\ snap' = LET m == getGrid(grid)
               IN  [taken |-> TRUE, matrix |-> m.matrix,
                    sharesOuter |-> m.sharesOuter, sharesRow |-> m.sharesRow]
    /\ Observe(watch, [name |-> "getGrid"], getGrid(grid).matrix)
    /\ UNCHANGED <<rows, cols, grid, birthRule, survivalRule, track, twin, frameInterval,
                   controller, page>>

\* m[row][col] = v, by the caller
CallerWritesCell(row, col, v, watch) ==
    /\ Running
    /\ snap.taken
    /\ snap' = [snap EXCEPT !.matrix[row][col] = v]
    /\ grid' = IF snap.sharesRow[row] THEN [grid EXCEPT ![row][col] = v] ELSE grid
    /\ Observe(watch, [name |-> "callerWritesCell", row |-> row, col |-> col], "void")
    /\ UNCHANGED <<rows, cols, birthRule, survivalRule, track, twin, frameInterval,
                   controller, page>>

\* m[row] = newRow, a fresh array, by the caller
CallerReplacesRow(row, newRow, watch) ==
    /\ Running
    /\ snap.taken
    /\ snap' = [snap EXCEPT !.matrix[row] = newRow, !.sharesRow[row] = snap.sharesOuter]
    /\ grid' = IF snap.sharesOuter THEN [grid EXCEPT ![row] = newRow] ELSE grid
    /\ Observe(watch, [name |-> "callerReplacesRow", row |-> row], "void")
    /\ UNCHANGED <<rows, cols, birthRule, survivalRule, track, twin, frameInterval,
                   controller, page>>

EngineSetCell(row, col, alive, watch) ==
    /\ Running
    /\ grid' = setCell(grid, rows, cols, row, col, alive)
    /\ snap' = IF grid' = grid /\ ~(<<row, col>> \in Cells) THEN snap
               ELSE SnapAfterEngineWrite(snap, row, col, alive)
    /\ Observe(watch, [name |-> "setCell", row |-> row, col |-> col, alive |-> alive],
               "void")
    /\ UNCHANGED <<rows, cols, birthRule, survivalRule, track, twin, frameInterval,
                   controller, page>>

EngineToggleCell(row, col, watch) ==
    /\ Running
    /\ grid' = toggleCell(grid, rows, cols, row, col)
    /\ snap' = IF <<row, col>> \in Cells
               THEN SnapAfterEngineWrite(snap, row, col, grid'[row][col])
               ELSE snap
    /\ Observe(watch, [name |-> "toggleCell", row |-> row, col |-> col], "void")
    /\ UNCHANGED <<rows, cols, birthRule, survivalRule, track, twin, frameInterval,
                   controller, page>>

EngineRandomize(percent, watch) ==
    /\ Running
    /\ grid' \in randomize(rows, cols, percent)
    /\ snap' = SnapAfterEngineWrites(snap, grid')
    /\ Observe(watch, [name |-> "randomize", percent |-> percent], "void")
    /\ UNCHANGED <<rows, cols, birthRule, survivalRule, track, twin, frameInterval,
                   controller, page>>

EngineAddGlider(startRow, startCol, watch) ==
    /\ Running
    /\ grid' = addGlider(grid, rows, cols, startRow, startCol)
    /\ snap' = SnapAfterEngineWrites(snap, grid')
    /\ Observe(watch, [name |-> "addGlider", row |-> startRow, col |-> startCol], "void")
    /\ UNCHANGED <<rows, cols, birthRule, survivalRule, track, twin, frameInterval,
                   controller, page>>

EngineNextGeneration(watch) ==
    /\ Running
    /\ grid' = nextGeneration(grid, rows, cols, birthRule, survivalRule)
    /\ snap' = SnapAfterEngineReplace(snap)
    /\ Observe(watch, [name |-> "nextGeneration"], "void")
    /\ UNCHANGED <<rows, cols, birthRule, survivalRule, track, twin, frameInterval,
                   controller, page>>

EngineClear(watch) ==
    /\ Running
    /\ grid' = clear(rows, cols)
    /\ snap' = SnapAfterEngineReplace(snap)
    /\ Observe(watch, [name |-> "clear"], "void")
    /\ UNCHANGED <<rows, cols, birthRule, survivalRule, track, twin, frameInterval,
                   controller, page>>

NextAlias ==
    \/ \E w \in BOOLEAN : TakeGrid(w)
    \/ \E p \in Cells, v \in BOOLEAN, w \in BOOLEAN : CallerWritesCell(p[1], p[2], v, w)
    \/ \E row \in 0..(rows - 1), newRow \in [0..(cols - 1) -> BOOLEAN], w \in BOOLEAN :
          CallerReplacesRow(row, newRow, w)
    \/ \E p \in Cells, alive \in BOOLEAN, w \in BOOLEAN :
          EngineSetCell(p[1], p[2], alive, w)
    \/ \E p \in Cells, w \in BOOLEAN : EngineToggleCell(p[1], p[2], w)
    \/ \E percent \in {0, 100}, w \in BOOLEAN : EngineRandomize(percent, w)
    \/ \E sr \in {-1, 0}, sc \in {-1, 0}, w \in BOOLEAN : EngineAddGlider(sr, sc, w)
    \/ \E w \in BOOLEAN : EngineNextGeneration(w)
    \/ \E w \in BOOLEAN : EngineClear(w)

InitAlias == \E d \in Dims(AliasRows, AliasCols, AliasCells) : Constructed(d[1], d[2])

SpecAlias == InitAlias /\ [][NextAlias]_vars

-----------------------------------------------------------------------------
(* SpecToggle: toggleCell on every grid of up to MaxCells cells, in and    *)
(* out of bounds, and the same call made once more right after it.  pre    *)
(* keeps the state the first of the two calls started from.                *)

\* the second of two consecutive toggleCell(row, col) calls
ToggleCellAgain ==
    /\ lastOp.name = "toggleCell"
    /\ grid' = toggleCell(grid, rows, cols, lastOp.row, lastOp.col)
    /\ lastOp' = [lastOp EXCEPT !.name = "toggleCellTwice"]
    /\ UNCHANGED <<rows, cols, birthRule, survivalRule, pre, ret, track, snap, twin,
                   frameInterval, controller, page>>

NextToggle ==
    \/ \E p \in Cells : SetCell(p[1], p[2], TRUE, FALSE)
    \/ \E counts \in PresetCounts : SetSurvivalRule(counts, FALSE)
    \/ \E row \in RowArgs, col \in ColArgs, w \in BOOLEAN : ToggleCell(row, col, w)
    \/ ToggleCellAgain

SpecToggle == Init /\ [][NextToggle]_vars

-----------------------------------------------------------------------------
(* SpecRuleStep: a rule setter called on any grid of up to MaxCells cells  *)
(* under any rule sets built from StepCounts, and the nextGeneration()     *)
(* that follows it.  pre keeps the state the setter started from.          *)

\* the first nextGeneration() after an observed rule change
NextGenerationAfterRuleChange ==
    /\ lastOp.name \in {"setBirthRule", "setSurvivalRule"}
    /\ grid' = nextGeneration(grid, rows, cols, birthRule, survivalRule)
    /\ lastOp' = [name |-> "nextGenerationAfterRuleChange",
                  setter |-> lastOp.name, counts |-> lastOp.counts]
    /\ UNCHANGED <<rows, cols, birthRule, survivalRule, pre, ret, track, snap, twin,
                   frameInterval, controller, page>>

NextRuleStep ==
    \/ \E p \in Cells : SetCell(p[1], p[2], TRUE, FALSE)
    \/ \E counts \in StepCounts, w \in BOOLEAN : SetBirthRule(counts, w)
    \/ \E counts \in StepCounts, w \in BOOLEAN : SetSurvivalRule(counts, w)
    \/ NextGeneration(FALSE)
    \/ NextGenerationAfterRuleChange

SpecRuleStep == Init /\ [][NextRuleStep]_vars

-----------------------------------------------------------------------------
(* SpecTwin: two GameOfLife instances of the same dimensions, each driven  *)
(* by its own sequence of calls.  The first is the engine of the other     *)
(* specifications; the fields of the second are twin.grid, twin.birthRule  *)
(* and twin.survivalRule.  A run ends with one nextGeneration() on each;   *)
(* pre and twin.pre keep what the two calls started from.                  *)

\* count arrays that build the same sets in different insertion orders
TwinCounts == {<<3>>, <<2, 3>>, <<3, 2>>}

\* const other = new GameOfLife(R, C)
TwinConstructed(R, C) ==
    [built        |-> TRUE,
     grid         |-> createEmptyGrid(R, C),
     birthRule    |-> DefaultBirthRule,
     survivalRule |-> DefaultSurvivalRule,
     stepped      |-> FALSE,
     pre          |-> NoOp]

InitTwin ==
    \E d \in Dims(TwinRows, TwinCols, TwinCells) :
        /\ rows = d[1]
        /\ cols = d[2]
        /\ grid = createEmptyGrid(d[1], d[2])
        /\ birthRule = DefaultBirthRule
        /\ survivalRule = DefaultSurvivalRule
        /\ lastOp = NoOp
        /\ pre = NoOp
        /\ ret = "void"
        /\ track = NoTrack
        /\ snap = NoSnap
        /\ twin = TwinConstructed(d[1], d[2])
        /\ frameInterval = InitialFrameInterval
        /\ controller = InitialController
        /\ page = InitialPage

TwinUnchanged ==
    UNCHANGED <<rows, cols, grid, birthRule, survivalRule, lastOp, pre, ret, track, snap,
                frameInterval, controller, page>>

TwinToggleCell(row, col) ==
    /\ Running
    /\ twin' = [twin EXCEPT !.grid = toggleCell(twin.grid, rows, cols, row, col)]
    /\ TwinUnchanged

TwinSetBirthRule(counts) ==
    /\ Running
    /\ twin' = [twin EXCEPT !.birthRule = NewSet(counts)]
    /\ TwinUnchanged

TwinSetSurvivalRule(counts) ==
    /\ Running
    /\ twin' = [twin EXCEPT !.survivalRule = NewSet(counts)]
    /\ TwinUnchanged

TwinClear ==
    /\ Running
    /\ twin' = [twin EXCEPT !.grid = clear(rows, cols)]
    /\ TwinUnchanged

\* other.nextGeneration(); the one made after the first engine's observed
\* step is the second engine's observed step
TwinNextGeneration ==
    /\ ~twin.stepped
    /\ twin' = [twin EXCEPT
                   !.grid = nextGeneration(twin.grid, rows, cols,
                                           twin.birthRule, twin.survivalRule),
                   !.stepped = Stepped,
                   !.pre = IF Stepped
                           THEN [grid         |-> twin.grid,
                                 birthRule    |-> twin.birthRule,
                                 survivalRule |-> twin.survivalRule]
                           ELSE NoOp]
    /\ TwinUnchanged

NextTwin ==
    \/ \E p \in Cells : SetCell(p[1], p[2], TRUE, FALSE)
    \/ \E counts \in TwinCounts : SetBirthRule(counts, FALSE)
    \/ \E counts \in TwinCounts : SetSurvivalRule(counts, FALSE)
    \/ \E w \in BOOLEAN : NextGeneration(w)
    \/ \E p \in Cells : TwinToggleCell(p[1], p[2])
    \/ \E counts \in TwinCounts : TwinSetBirthRule(counts)
    \/ \E counts \in TwinCounts : TwinSetSurvivalRule(counts)
    \/ TwinClear
    \/ TwinNextGeneration

SpecTwin == InitTwin /\ [][NextTwin]_vars

-----------------------------------------------------------------------------
(* SpecConstruct: engines constructed one after another, as the controller *)
(* does when it assigns a new GameOfLife to its game field; the variables  *)
(* are the fields of the newest instance.                                  *)

\* new GameOfLife(R, C)
Construct(R, C, watch) ==
    /\ Running
    /\ rows' = R
    /\ cols' = C
    /\ grid' = createEmptyGrid(R, C)
    /\ birthRule' = DefaultBirthRule
    /\ survivalRule' = DefaultSurvivalRule
    /\ Observe(watch, [name |-> "constructor", rows |-> R, cols |-> C], "void")
    /\ UNCHANGED <<track, snap, twin, frameInterval, controller, page>>

NextConstruct ==
    \/ \E p \in Cells : SetCell(p[1], p[2], TRUE, FALSE)
    \/ \E counts \in PresetCounts : SetBirthRule(counts, FALSE)
    \/ \E counts \in PresetCounts : SetSurvivalRule(counts, FALSE)
    \/ \E d \in Dims(MaxRows, MaxCols, MaxCells), w \in BOOLEAN : Construct(d[1], d[2], w)

SpecConstruct == Init /\ [][NextConstruct]_vars

-----------------------------------------------------------------------------
(* SpecSpeed: the controller's speed controls, on the 40 x 60 engine its   *)
(* constructor builds: the speed slider and the ArrowUp / ArrowDown keys.  *)

EngineUntouched ==
    UNCHANGED <<rows, cols, grid, birthRule, survivalRule, track, snap, twin,
                controller, page>>

\* 'input' event of the speed slider, its value being speed
UpdateSpeed(speed, watch) ==
    /\ Running
    /\ frameInterval' = updateSpeed(speed)
    /\ Observe(watch, [name |-> "updateSpeed", calls |-> 0], "void")
    /\ EngineUntouched

\* key ArrowUp
IncreaseSpeed(watch) ==
    /\ Running
    /\ frameInterval' = increaseSpeed(frameInterval)
    /\ Observe(watch, [name |-> "increaseSpeed", calls |-> 0], "void")
    /\ EngineUntouched

\* key ArrowDown
DecreaseSpeed(watch) ==
    /\ Running
    /\ frameInterval' = decreaseSpeed(frameInterval)
    /\ Observe(watch, [name |-> "decreaseSpeed", calls |-> 0], "void")
    /\ EngineUntouched

InitSpeed == Constructed(40, 60)

NextSpeed ==
    \/ \E speed \in SliderSpeeds, w \in BOOLEAN : UpdateSpeed(speed, w)
    \/ \E w \in BOOLEAN : IncreaseSpeed(w)
    \/ \E w \in BOOLEAN : DecreaseSpeed(w)

SpecSpeed == InitSpeed /\ [][NextSpeed]_vars

-----------------------------------------------------------------------------
(* SpecCount: the private countNeighbors(row, col), called as              *)
(* nextGeneration() calls it, for a cell of the grid, on every grid of up  *)
(* to StepCells cells                                                      *)

\* this.countNeighbors(row, col)
CountNeighbors(row, col, watch) ==
    /\ Running
    /\ Observe(watch, [name |-> "countNeighbors", row |-> row, col |-> col],
               countNeighbors(grid, rows, cols, row, col))
    /\ UNCHANGED <<rows, cols, grid, birthRule, survivalRule, track, snap, twin,
                   frameInterval, controller, page>>

NextCount ==
    \/ \E p \in Cells : SetCell(p[1], p[2], TRUE, FALSE)
    \/ \E p \in Cells, w \in BOOLEAN : CountNeighbors(p[1], p[2], w)

SpecCount == InitStep /\ [][NextCount]_vars

-----------------------------------------------------------------------------
(* The controller (class GameController): one action per event handler.    *)
(* rows .. survivalRule are the fields of this.game, the engine the        *)
(* controller currently holds; an observed handler records in calls how    *)
(* many times it called game.nextGeneration().                             *)

MaxGeneration == 2

\* the rule presets of setupRuleControls()
Presets ==
    [conway   |-> [birth |-> <<3>>,             survival |-> <<2, 3>>],
     highlife |-> [birth |-> <<3, 6>>,          survival |-> <<2, 3>>],
     daynight |-> [birth |-> <<3, 6, 7, 8>>,    survival |-> <<3, 4, 6, 7, 8>>],
     seeds    |-> [birth |-> <<2>>,             survival |-> <<>>],
     life34   |-> [birth |-> <<3, 4>>,          survival |-> <<3, 4>>],
     diamoeba |-> [birth |-> <<3, 5, 6, 7, 8>>, survival |-> <<5, 6, 7, 8>>]]

ControllerAside == UNCHANGED <<track, snap, twin>>

\* what a handler leaves of the engine when it does not touch this.game
GameUntouched == UNCHANGED <<rows, cols, grid, birthRule, survivalRule>>

\* the run loop's part of a handler: r is what start, stop or gameLoop returned
RunLoopResult(r) ==
    /\ r.calls = 0 \/ controller.generation < MaxGeneration
    /\ controller' = r.c
    /\ page' = [page EXCEPT !.frames = r.frames]
    /\ grid' = IF r.calls = 1
               THEN nextGeneration(grid, rows, cols, birthRule, survivalRule)
               ELSE grid

\* 'click' on the start button
ControllerStart(watch) ==
    /\ Running
    /\ RunLoopResult(start(controller, page.frames, frameInterval))
    /\ Observe(watch, [name |-> "start",
                       calls |-> start(controller, page.frames, frameInterval).calls], "void")
    /\ UNCHANGED <<rows, cols, birthRule, survivalRule, frameInterval>>
    /\ ControllerAside

\* 'click' on the stop button
ControllerStop(watch) ==
    /\ Running
    /\ RunLoopResult(stop(controller, page.frames))
    /\ Observe(watch, [name |-> "stop", calls |-> 0], "void")
    /\ UNCHANGED <<rows, cols, birthRule, survivalRule, frameInterval>>
    /\ ControllerAside

\* key ' ': this.isRunning ? this.stop() : this.start()
KeySpace(watch) ==
    /\ Running
    /\ RunLoopResult(IF controller.isRunning
                     THEN stop(controller, page.frames)
                     ELSE start(controller, page.frames, frameInterval))
    /\ Observe(watch, [name |-> "space",
                       calls |-> IF controller.isRunning THEN 0
                                 ELSE start(controller, page.frames, frameInterval).calls],
               "void")
    /\ UNCHANGED <<rows, cols, birthRule, survivalRule, frameInterval>>
    /\ ControllerAside

\* the page runs a pending animation frame callback, () => this.gameLoop(),
\* elapsed milliseconds after lastFrameTime
GameLoopFrame(h, elapsed, watch) ==
    LET r == gameLoop(controller, page.frames \ {h}, Due(elapsed, frameInterval))
    IN  /\ Running
        /\ h \in page.frames
        /\ RunLoopResult(r)
        /\ Observe(watch, [name |-> "frame", calls |-> r.calls], "void")
        /\ UNCHANGED <<rows, cols, birthRule, survivalRule, frameInterval>>
        /\ ControllerAside

\* 'click' on the step button, keys n and N: step()
ControllerStep(watch) ==
    /\ Running
    /\ controller.generation < MaxGeneration
    /\ grid' = nextGeneration(grid, rows, cols, birthRule, survivalRule)
    /\ controller' = [controller EXCEPT !.generation = @ + 1]
    /\ Observe(watch, [name |-> "step", calls |-> 1], "void")
    /\ UNCHANGED <<rows, cols, birthRule, survivalRule, frameInterval, page>>
    /\ ControllerAside

\* 'click' on the clear button, keys c and C: clear()
ControllerClear(watch) ==
    LET r == stop(controller, page.frames)
    IN  /\ Running
        /\ grid' = clear(rows, cols)
        /\ controller' = [r.c EXCEPT !.generation = 0]
        /\ page' = [page EXCEPT !.frames = r.frames]
        /\ Observe(watch, [name |-> "clear", calls |-> 0], "void")
        /\ UNCHANGED <<rows, cols, birthRule, survivalRule, frameInterval>>
        /\ ControllerAside

\* 'click' on the random button, keys r and R: randomize(), density 0.25
ControllerRandomize(watch) ==
    LET r == stop(controller, page.frames)
    IN  /\ Running
        /\ grid' \in randomize(rows, cols, 25)
        /\ controller' = [r.c EXCEPT !.generation = 0]
        /\ page' = [page EXCEPT !.frames = r.frames]
        /\ Observe(watch, [name |-> "randomize", calls |-> 0], "void")
        /\ UNCHANGED <<rows, cols, birthRule, survivalRule, frameInterval>>
        /\ ControllerAside

\* 'click' on the glider button: addGlider() at a random place
ControllerAddGlider(startRow, startCol, watch) ==
    /\ Running
    /\ startRow \in GliderStarts(rows - 5)
    /\ startCol \in GliderStarts(cols - 5)
    /\ grid' = addGlider(grid, rows, cols, startRow, startCol)
    /\ Observe(watch, [name |-> "glider", calls |-> 0], "void")
    /\ UNCHANGED <<rows, cols, birthRule, survivalRule, frameInterval, controller, page>>
    /\ ControllerAside

\* 'input' event of the size slider, its value being size: updateGridSize()
UpdateGridSize(size, watch) ==
    LET r == stop(controller, page.frames)
    IN  /\ Running
        /\ rows' = size
        /\ cols' = size
        /\ grid' = createEmptyGrid(size, size)
        /\ birthRule' = DefaultBirthRule
        /\ survivalRule' = DefaultSurvivalRule
        /\ controller' = [r.c EXCEPT !.cellSize = gridCellSize(size), !.generation = 0]
        /\ page' = [page EXCEPT !.frames = r.frames]
        /\ Observe(watch, [name |-> "updateGridSize", size |-> size, calls |-> 0], "void")
        /\ UNCHANGED frameInterval
        /\ ControllerAside

\* 'wheel' event on the canvas with deltaY < 0
ZoomIn(watch) ==
    /\ Running
    /\ controller' = [controller EXCEPT !.cellSize = zoomIn(@)]
    /\ Observe(watch, [name |-> "zoomIn", calls |-> 0], "void")
    /\ GameUntouched
    /\ UNCHANGED <<frameInterval, page>>
    /\ ControllerAside

\* 'wheel' event on the canvas with deltaY >= 0
ZoomOut(watch) ==
    /\ Running
    /\ controller' = [controller EXCEPT !.cellSize = zoomOut(@)]
    /\ Observe(watch, [name |-> "zoomOut", calls |-> 0], "void")
    /\ GameUntouched
    /\ UNCHANGED <<frameInterval, page>>
    /\ ControllerAside

\* 'change' event of the preset select, its value being name
SelectPreset(name, watch) ==
    /\ Running
    /\ birthRule' = setBirthRule(Presets[name].birth)
    /\ survivalRule' = setSurvivalRule(Presets[name].survival)
    /\ page' = [page EXCEPT !.birthChosen = Range(Presets[name].birth),
                            !.survivalChosen = Range(Presets[name].survival)]
    /\ Observe(watch, [name |-> "preset", preset |-> name, calls |-> 0], "void")
    /\ UNCHANGED <<rows, cols, grid, frameInterval, controller>>
    /\ ControllerAside

\* 'change' event of a rule checkbox, after which the checked birth boxes are
\* birthCounts and the checked survival boxes survivalCounts
ChangeCheckbox(birthCounts, survivalCounts, watch) ==
    /\ Running
    /\ birthRule' = setBirthRule(birthCounts)
    /\ survivalRule' = setSurvivalRule(survivalCounts)
    /\ page' = [page EXCEPT !.birthChosen = Range(birthCounts),
                            !.survivalChosen = Range(survivalCounts)]
    /\ Observe(watch, [name |-> "checkbox", calls |-> 0], "void")
    /\ UNCHANGED <<rows, cols, grid, frameInterval, controller>>
    /\ ControllerAside

\* 'mousedown' on the canvas, the renderer placing the pointer at (row, col)
CanvasMouseDown(row, col, watch) ==
    /\ Running
    /\ grid' = toggleCell(grid, rows, cols, row, col)
    /\ controller' = [controller EXCEPT !.isDrawing = TRUE, !.lastCell = <<row, col>>]
    /\ Observe(watch, [name |-> "canvasDown", row |-> row, col |-> col, calls |-> 0], "void")
    /\ UNCHANGED <<rows, cols, birthRule, survivalRule, frameInterval, page>>
    /\ ControllerAside

\* 'mousemove' on the canvas
CanvasMouseMove(row, col, watch) ==
    LET draws == controller.isDrawing /\ <<row, col>> # controller.lastCell
    IN  /\ Running
        /\ grid' = IF draws THEN setCell(grid, rows, cols, row, col, TRUE) ELSE grid
        /\ controller' = IF draws THEN [controller EXCEPT !.lastCell = <<row, col>>]
                         ELSE controller
        /\ Observe(watch, [name |-> "canvasMove", row |-> row, col |-> col, calls |-> 0], "void")
        /\ UNCHANGED <<rows, cols, birthRule, survivalRule, frameInterval, page>>
        /\ ControllerAside

\* 'mouseup' and 'mouseleave' on the canvas
CanvasMouseUp(watch) ==
    /\ Running
    /\ controller' = [controller EXCEPT !.isDrawing = FALSE]
    /\ Observe(watch, [name |-> "canvasUp", calls |-> 0], "void")
    /\ GameUntouched
    /\ UNCHANGED <<frameInterval, page>>
    /\ ControllerAside

\* 'mousedown' on a resize handle: startResize(e, type)
ResizeMouseDown(type, watch) ==
    /\ Running
    /\ controller' = [controller EXCEPT !.isResizing = TRUE, !.resizeType = type,
                                        !.startRows = getDimensions(rows, cols).rows,
                                        !.startCols = getDimensions(rows, cols).cols]
    /\ Observe(watch, [name |-> "resizeDown", calls |-> 0], "void")
    /\ GameUntouched
    /\ UNCHANGED <<frameInterval, page>>
    /\ ControllerAside

\* 'mousemove' on the document, the pointer being cellDeltaX columns and
\* cellDeltaY rows away from where the drag started
ResizeMouseMove(cellDeltaX, cellDeltaY, watch) ==
    LET c == controller
        newCols == IF c.resizeType \in {"right", "corner"}
                   THEN clampDragSize(c.startCols + cellDeltaX) ELSE c.startCols
        newRows == IF c.resizeType \in {"bottom", "corner"}
                   THEN clampDragSize(c.startRows + cellDeltaY) ELSE c.startRows
        resizes == c.isResizing /\ (newRows # rows \/ newCols # cols)
    IN  /\ Running
        /\ IF resizes
           THEN /\ rows' = newRows
                /\ cols' = newCols
                /\ grid' = resizeGrid(grid, rows, cols, newRows, newCols)
                /\ birthRule' = DefaultBirthRule
                /\ survivalRule' = DefaultSurvivalRule
           ELSE GameUntouched
        /\ Observe(watch, [name |-> "resizeMove", resized |-> resizes, calls |-> 0], "void")
        /\ UNCHANGED <<frameInterval, controller, page>>
        /\ ControllerAside

\* 'mouseup' on the document
ResizeMouseUp(watch) ==
    /\ Running
    /\ controller' = [controller EXCEPT !.isResizing = FALSE]
    /\ Observe(watch, [name |-> "resizeUp", calls |-> 0], "void")
    /\ GameUntouched
    /\ UNCHANGED <<frameInterval, page>>
    /\ ControllerAside

-----------------------------------------------------------------------------
(* SpecLoop: the run loop under every interleaving of the controller's     *)
(* events and the page's animation frame callbacks, on an engine small     *)
(* enough to be stepped and randomized: the controller after its size      *)
(* slider was set to a size in LoopSizes.  Handlers that neither start,    *)
(* stop nor step are taken as the last, observed event of a run, except    *)
(* the two mousedown handlers that arm a drag.                             *)

MaxLoopSize == 1

LoopSizes == 1..MaxLoopSize

\* milliseconds since lastFrameTime at which a frame callback may run
FrameElapsed == {0, 16, 1000}

\* grid positions the renderer reports for the pointer
LoopPositions == {<<0, 0>>, <<1, 0>>}

\* cell distances of a drag
DragDeltas == {-100, 0, 3, 200}

ResizeTypes == {"right", "bottom", "corner"}

\* the counts of the checked boxes of one rule, in document order
CheckedCounts == {<<>>, <<3>>, <<2, 3>>, <<0, 8>>}

\* a new controller after updateGridSize() with the size slider at size
SizedBySlider(size) ==
    /\ rows = size
    /\ cols = size
    /\ grid = createEmptyGrid(size, size)
    /\ birthRule = DefaultBirthRule
    /\ survivalRule = DefaultSurvivalRule
    /\ lastOp = NoOp
    /\ pre = NoOp
    /\ ret = "void"
    /\ track = NoTrack
    /\ snap = NoSnap
    /\ twin = NoTwin
    /\ frameInterval = InitialFrameInterval
    /\ controller = [InitialController EXCEPT !.cellSize = gridCellSize(size)]
    /\ page = InitialPage

InitLoop == \E size \in LoopSizes : SizedBySlider(size)

NextLoop ==
    \/ \E w \in BOOLEAN : ControllerStart(w)
    \/ \E w \in BOOLEAN : ControllerStop(w)
    \/ \E w \in BOOLEAN : KeySpace(w)
    \/ \E w \in BOOLEAN : ControllerStep(w)
    \/ \E w \in BOOLEAN : ControllerClear(w)
    \/ \E w \in BOOLEAN : ControllerRandomize(w)
    \/ \E h \in page.frames, e \in FrameElapsed, w \in BOOLEAN : GameLoopFrame(h, e, w)
    \/ \E size \in LoopSizes, w \in BOOLEAN : UpdateGridSize(size, w)
    \/ \E r \in GliderStarts(rows - 5), c \in GliderStarts(cols - 5), w \in BOOLEAN :
           ControllerAddGlider(r, c, w)
    \/ \E p \in LoopPositions, w \in BOOLEAN : CanvasMouseDown(p[1], p[2], w)
    \/ \E p \in LoopPositions : CanvasMouseMove(p[1], p[2], TRUE)
    \/ CanvasMouseUp(TRUE)
    \/ \E type \in ResizeTypes, w \in BOOLEAN : ResizeMouseDown(type, w)
    \/ \E dx \in DragDeltas, dy \in DragDeltas : ResizeMouseMove(dx, dy, TRUE)
    \/ ResizeMouseUp(TRUE)
    \/ \E name \in DOMAIN Presets : SelectPreset(name, TRUE)
    \/ \E b \in CheckedCounts, sv \in CheckedCounts : ChangeCheckbox(b, sv, TRUE)
    \/ ZoomIn(TRUE)
    \/ ZoomOut(TRUE)
    \/ \E speed \in SliderSpeeds : UpdateSpeed(speed, TRUE)
    \/ IncreaseSpeed(TRUE)
    \/ DecreaseSpeed(TRUE)

SpecLoop == InitLoop /\ [][NextLoop]_vars

-----------------------------------------------------------------------------
(* SpecResize: the handlers that edit or replace the engine's grid: the    *)
(* canvas mousedown, the size slider and the resize handles.  The run      *)
(* starts after the size slider was set, on a grid whose rows and columns  *)
(* the copy loop of resizeGrid can be unrolled over, and a document        *)
(* mousemove is taken as the last, observed event.                         *)

\* values of the size slider: "10x10 up to 200x200" (README.md)
SliderSizes == {10, 12}

\* grid positions the renderer reports for the pointer: in every grid, in
\* the larger one only, outside both
ResizePositions == {<<0, 0>>, <<9, 9>>, <<11, 10>>, <<12, 12>>}

\* <<cellDeltaX, cellDeltaY>> of a drag: far inwards, fewer columns and more
\* rows, nowhere, far to the right, far down, far out
ResizeDrags == {<<-100, -100>>, <<-2, 5>>, <<0, 0>>, <<200, 0>>, <<0, 200>>, <<200, 200>>}

InitResize == \E size \in SliderSizes : SizedBySlider(size)

NextResize ==
    \/ \E p \in ResizePositions, w \in BOOLEAN : CanvasMouseDown(p[1], p[2], w)
    \/ \E size \in SliderSizes, w \in BOOLEAN : UpdateGridSize(size, w)
    \/ \E type \in ResizeTypes, w \in BOOLEAN : ResizeMouseDown(type, w)
    \/ \E d \in ResizeDrags : ResizeMouseMove(d[1], d[2], TRUE)
    \/ \E w \in BOOLEAN : ResizeMouseUp(w)

SpecResize == InitResize /\ [][NextResize]_vars

-----------------------------------------------------------------------------
(* SpecRuleControls: the rule controls and the handlers that replace the   *)
(* engine, the size slider and the resize handles, from the same start.    *)

\* drags that stay within the clamp
RuleDrags == {<<-2, 5>>, <<0, 0>>}

NextRuleControls ==
    \/ \E name \in DOMAIN Presets, w \in BOOLEAN : SelectPreset(name, w)
    \/ \E b \in CheckedCounts, sv \in CheckedCounts, w \in BOOLEAN : ChangeCheckbox(b, sv, w)
    \/ \E size \in SliderSizes, w \in BOOLEAN : UpdateGridSize(size, w)
    \/ \E type \in ResizeTypes, w \in BOOLEAN : ResizeMouseDown(type, w)
    \/ \E d \in RuleDrags : ResizeMouseMove(d[1], d[2], TRUE)
    \/ ResizeMouseUp(TRUE)

SpecRuleControls == InitResize /\ [][NextRuleControls]_vars

-----------------------------------------------------------------------------
(* What the claims say, stated without the engine's loops *)

\* the live cells of matrix g
Live(g) == {p \in (DOMAIN g) \X (DOMAIN g[0]) : g[p[1]][p[2]]}

\* the Moore neighbourhood of p, without p
Moore(p) == {q \in ((p[1] - 1)..(p[1] + 1)) \X ((p[2] - 1)..(p[2] + 1)) : q # p}

\* the live in-bounds Moore neighbours of p in g; nothing outside the grid counts
LiveNeighbours(g, p) == Cardinality(Moore(p) \cap Live(g))

\* g is a matrix of R rows of C booleans
IsGrid(g, R, C) ==
    /\ DOMAIN g = 0..(R - 1)
    /\ \A r \in DOMAIN g : DOMAIN g[r] = 0..(C - 1) /\ \A c \in DOMAIN g[r] : g[r][c] \in BOOLEAN

\* C1: nextGeneration() replaces the grid by the one in which each cell is
\* alive iff it was alive and its pre-call live-neighbour count is in the
\* survival set, or it was dead and that count is in the birth set; all
\* counts are taken from the grid as it was before the call.
C1_NextGenerationFromSnapshot ==
    Stepped =>
        /\ IsGrid(grid, rows, cols)
        /\ \A p \in Cells :
              LET n == LiveNeighbours(pre.grid, p)
              IN  grid[p[1]][p[2]] <=>
                     \/ pre.grid[p[1]][p[2]] /\ n \in Range(pre.survivalRule)
                     \/ ~pre.grid[p[1]][p[2]] /\ n \in Range(pre.birthRule)

\* a step under non-default rules in which one cell survived, one died, one
\* was born, and a cell visited before one of its neighbours changed state
C1_Witness ==
    /\ Stepped
    /\ pre.birthRule # DefaultBirthRule
    /\ pre.survivalRule # DefaultSurvivalRule
    /\ \E p \in Cells : pre.grid[p[1]][p[2]] /\ grid[p[1]][p[2]]
    /\ \E p \in Cells : pre.grid[p[1]][p[2]] /\ ~grid[p[1]][p[2]]
    /\ \E p \in Cells : ~pre.grid[p[1]][p[2]] /\ grid[p[1]][p[2]]
    /\ \E p \in Cells, q \in Cells :
          /\ q \in Moore(p)
          /\ p[1] * cols + p[2] < q[1] * cols + q[2]
          /\ pre.grid[p[1]][p[2]] # grid[p[1]][p[2]]
          /\ pre.grid[q[1]][q[2]] # grid[q[1]][q[2]]

\* C2: on an engine whose rules were never changed, one nextGeneration()
\* applies the four classic rules to every cell: a live cell with fewer than
\* two live neighbours dies, one with two or three stays alive, one with
\* more than three dies, and a dead cell becomes alive iff it has exactly
\* three live neighbours.
C2_ClassicRules ==
    Stepped =>
        \A p \in Cells :
            LET n == LiveNeighbours(pre.grid, p)
                was == pre.grid[p[1]][p[2]]
                is == grid[p[1]][p[2]]
            IN  /\ (was /\ n < 2) => ~is
                /\ (was /\ n \in {2, 3}) => is
                /\ (was /\ n > 3) => ~is
                /\ ~was => (is <=> n = 3)

\* a step in which each of the four rules decided some cell
C2_Witness ==
    /\ Stepped
    /\ \E p \in Cells : pre.grid[p[1]][p[2]] /\ LiveNeighbours(pre.grid, p) < 2
    /\ \E p \in Cells : pre.grid[p[1]][p[2]] /\ LiveNeighbours(pre.grid, p) \in {2, 3}
    /\ \E p \in Cells : pre.grid[p[1]][p[2]] /\ LiveNeighbours(pre.grid, p) > 3
    /\ \E p \in Cells : ~pre.grid[p[1]][p[2]] /\ LiveNeighbours(pre.grid, p) = 3

\* s lists exactly the distinct values of set, in numerically ascending order
IsAscendingListOf(s, set) ==
    /\ Range(s) = set
    /\ \A i \in 1..Len(s), j \in 1..Len(s) : i < j => s[i] < s[j]

\* C3: getBirthRule() / getSurvivalRule() return exactly the distinct values
\* of the current set in numerically ascending order, whatever non-negative
\* counts the setters were given, counts of 10 or more included.
C3_GettersAscending ==
    /\ lastOp.name = "getBirthRule" => IsAscendingListOf(ret, Range(pre.birthRule))
    /\ lastOp.name = "getSurvivalRule" => IsAscendingListOf(ret, Range(pre.survivalRule))

InBounds(row, col) == row \in 0..(rows - 1) /\ col \in 0..(cols - 1)

EngineUnchanged ==
    /\ grid = pre.grid
    /\ birthRule = pre.birthRule
    /\ survivalRule = pre.survivalRule

\* C4: in every reachable state getCell(row, col) returns false for every
\* coordinate outside the grid and the stored cell for one inside, and
\* changes nothing.
C4_GetCellBoundsSafe ==
    lastOp.name = "getCell" =>
        /\ ret = IF InBounds(lastOp.row, lastOp.col)
                 THEN pre.grid[lastOp.row][lastOp.col]
                 ELSE FALSE
        /\ EngineUnchanged

\* getCell just beyond an edge, on the row or column of a live cell at the
\* opposite edge, after the rules were changed
C4_Witness ==
    /\ lastOp.name = "getCell"
    /\ ~InBounds(lastOp.row, lastOp.col)
    /\ Live(grid) # {}
    /\ \/ lastOp.col = cols /\ InBounds(lastOp.row, 0) /\ grid[lastOp.row][0]
       \/ lastOp.row = -1 /\ InBounds(rows - 1, lastOp.col) /\ grid[rows - 1][lastOp.col]
    /\ birthRule # DefaultBirthRule
    /\ ret = FALSE

\* C5: setCell(r, c, alive) and toggleCell(r, c) change no cell other than
\* (r, c) and never the rule sets; out of bounds they change nothing at all.
C5_CellMutatorsFrame ==
    lastOp.name \in {"setCell", "toggleCell"} =>
        /\ \A p \in Cells :
              p # <<lastOp.row, lastOp.col>> => grid[p[1]][p[2]] = pre.grid[p[1]][p[2]]
        /\ birthRule = pre.birthRule
        /\ survivalRule = pre.survivalRule
        /\ ~InBounds(lastOp.row, lastOp.col) =>
              /\ grid = pre.grid
              /\ getPopulation(grid, rows, cols) = getPopulation(pre.grid, rows, cols)

\* setCell(.., true) beyond an edge of a grid that has live and dead cells,
\* under changed rules
C5_Witness ==
    /\ lastOp.name = "setCell"
    /\ lastOp.alive
    /\ ~InBounds(lastOp.row, lastOp.col)
    /\ Live(grid) # {}
    /\ Live(grid) # Cells
    /\ survivalRule # DefaultSurvivalRule

\* the cells a template covers with a non-zero entry when stamped at (sr, sc)
Translated(pattern, sr, sc) ==
    {<<sr + x[1] - 1, sc + x[2] - 1>> :
        x \in {y \in (1..Len(pattern)) \X (1..Len(pattern[1])) : pattern[y[1]][y[2]] = 1}}

StampedPattern ==
    IF lastOp.name = "addGlider" THEN GliderPattern ELSE GunPattern

\* C6: addGlider and addGliderGun leave the live cells equal to the old live
\* cells united with the in-bounds translated alive cells of the template,
\* for every grid and offset, and leave the rules unchanged.
C6_StampIsUnion ==
    lastOp.name \in {"addGlider", "addGliderGun"} =>
        /\ IsGrid(grid, rows, cols)
        /\ Live(grid) = Live(pre.grid)
                        \cup (Translated(StampedPattern, lastOp.row, lastOp.col) \cap Cells)
        /\ birthRule = pre.birthRule
        /\ survivalRule = pre.survivalRule

\* a glider stamped at a negative offset, partly outside the grid, over a
\* cell that was alive where the template is dead and one it turns alive
C6_Witness ==
    /\ lastOp.name = "addGlider"
    /\ lastOp.row < 0
    /\ \E q \in Translated(GliderPattern, lastOp.row, lastOp.col) : q \notin Cells
    /\ \E q \in Translated(GliderPattern, lastOp.row, lastOp.col) \cap Cells :
          ~pre.grid[q[1]][q[2]]
    /\ \E q \in Live(pre.grid) :
          /\ q \notin Translated(GliderPattern, lastOp.row, lastOp.col)
          /\ q[1] - lastOp.row \in 0..2
          /\ q[2] - lastOp.col \in 0..2
    /\ survivalRule = <<>>

\* C7: with default rules, addGlider(1, 1) on an empty grid that the pattern
\* never leaves, followed by exactly four nextGeneration() calls, yields
\* exactly the glider's cells translated to offset (2, 2).
C7_GliderMovesDiagonally ==
    (track.at = <<1, 1>> /\ track.steps = 4) =>
        Live(grid) = {<<2, 3>>, <<3, 4>>, <<4, 2>>, <<4, 3>>, <<4, 4>>}

\* the glider stamped at (1, 1) on the empty grid and advanced four times
C7_Witness ==
    /\ track.at = <<1, 1>>
    /\ track.steps = 4
    /\ birthRule = DefaultBirthRule
    /\ survivalRule = DefaultSurvivalRule
    /\ Cardinality(Live(grid)) = 5

\* the live cells of g are exactly a 2x2 block
IsBlock(g) ==
    \E p \in (DOMAIN g) \X (DOMAIN g[0]) :
        Live(g) = {p, <<p[1] + 1, p[2]>>, <<p[1], p[2] + 1>>, <<p[1] + 1, p[2] + 1>>}

\* C8: with default rules a grid whose only live cells form a 2x2 block, at
\* any position, is a fixed point of nextGeneration().
C8_BlockIsFixedPoint ==
    (Stepped /\ IsBlock(pre.grid)
             /\ pre.birthRule = DefaultBirthRule
             /\ pre.survivalRule = DefaultSurvivalRule) =>
        grid = pre.grid

\* a step from a block in the top left corner of a grid larger than it
C8_Witness ==
    /\ Stepped
    /\ rows > 2
    /\ cols > 2
    /\ Live(pre.grid) = {<<0, 0>>, <<0, 1>>, <<1, 0>>, <<1, 1>>}
    /\ Live(grid) = Live(pre.grid)

\* C9: with an empty survival set and the birth set left at {3}, every cell
\* alive before one nextGeneration() is dead after it.
C9_EmptySurvivalKillsAll ==
    (Stepped /\ pre.survivalRule = <<>> /\ pre.birthRule = DefaultBirthRule) =>
        \A p \in Cells : pre.grid[p[1]][p[2]] => ~grid[p[1]][p[2]]

\* such a step from a grid with live cells of neighbour counts 2 and 3, the
\* counts the default survival set would have kept alive
C9_Witness ==
    /\ Stepped
    /\ pre.survivalRule = <<>>
    /\ pre.birthRule = DefaultBirthRule
    /\ \E p \in Cells : pre.grid[p[1]][p[2]] /\ LiveNeighbours(pre.grid, p) = 2
    /\ \E p \in Cells : pre.grid[p[1]][p[2]] /\ LiveNeighbours(pre.grid, p) = 3
    /\ \E p \in Cells : grid[p[1]][p[2]]

\* C10: getGrid() returns a matrix equal to the engine's grid that shares no
\* row and no cell with it: a write to the returned matrix (a cell, a whole
\* row) leaves the engine's grid, and so getCell, getPopulation and later
\* generations, unchanged, and a later engine mutation leaves a matrix
\* returned earlier unchanged.
C10_GetGridIsDeepCopy ==
    /\ lastOp.name = "getGrid" => (ret = pre.grid /\ snap.matrix = grid /\ EngineUnchanged)
    /\ lastOp.name \in {"callerWritesCell", "callerReplacesRow"} =>
          /\ EngineUnchanged
          /\ getPopulation(grid, rows, cols) = getPopulation(pre.grid, rows, cols)
          /\ nextGeneration(grid, rows, cols, birthRule, survivalRule)
                = nextGeneration(pre.grid, rows, cols, pre.birthRule, pre.survivalRule)
    /\ (lastOp.name \in {"setCell", "toggleCell", "randomize", "addGlider",
                         "nextGeneration", "clear"} /\ pre.snap.taken) =>
          snap.matrix = pre.snap.matrix

\* the caller wrote a cell of a matrix taken earlier, making it differ from
\* the engine's grid there
C10_Witness ==
    /\ lastOp.name = "callerWritesCell"
    /\ pre.snap.taken
    /\ snap.matrix # pre.snap.matrix
    /\ snap.matrix[lastOp.row][lastOp.col] # grid[lastOp.row][lastOp.col]
    /\ Live(grid) # {}

\* C11: two consecutive toggleCell calls on the same in-bounds cell restore
\* the grid exactly to its state before the first call, whatever the grid;
\* a toggleCell on an out-of-bounds cell leaves the population unchanged.
C11_ToggleIsInvolution ==
    /\ (lastOp.name = "toggleCellTwice" /\ InBounds(lastOp.row, lastOp.col)) =>
          /\ grid = pre.grid
          /\ birthRule = pre.birthRule
          /\ survivalRule = pre.survivalRule
    /\ (lastOp.name = "toggleCell" /\ InBounds(lastOp.row, lastOp.col)) =>
          grid[lastOp.row][lastOp.col] # pre.grid[lastOp.row][lastOp.col]
    /\ (lastOp.name \in {"toggleCell", "toggleCellTwice"}
            /\ ~InBounds(lastOp.row, lastOp.col)) =>
          getPopulation(grid, rows, cols) = getPopulation(pre.grid, rows, cols)

\* a dead cell of a grid with other live cells, toggled twice
C11_Witness ==
    /\ lastOp.name = "toggleCellTwice"
    /\ InBounds(lastOp.row, lastOp.col)
    /\ ~pre.grid[lastOp.row][lastOp.col]
    /\ ~grid[lastOp.row][lastOp.col]
    /\ Live(pre.grid) # {}

\* C12: from any reachable state and under any rule sets, clear() leaves
\* every cell dead, so that getPopulation() returns 0, and leaves the birth
\* set, the survival set and the dimensions exactly as they were.
C12_ClearKillsAll ==
    lastOp.name = "clear" =>
        /\ IsGrid(grid, rows, cols)
        /\ \A p \in Cells : ~grid[p[1]][p[2]]
        /\ getPopulation(grid, rows, cols) = 0
        /\ birthRule = pre.birthRule
        /\ survivalRule = pre.survivalRule
        /\ getDimensions(rows, cols) = getDimensions(pre.rows, pre.cols)

\* clear() on a grid with a live cell outside the first row, under rule
\* sets that are both changed
C12_Witness ==
    /\ lastOp.name = "clear"
    /\ \E p \in Live(pre.grid) : p[1] > 0
    /\ birthRule # DefaultBirthRule
    /\ survivalRule # DefaultSurvivalRule

\* the stored set s holds exactly the distinct values of counts, each once
IsSetOf(s, counts) ==
    /\ Range(s) = Range(counts)
    /\ \A i \in 1..Len(s), j \in 1..Len(s) : s[i] = s[j] => i = j

\* C13: setBirthRule(counts) / setSurvivalRule(counts) make the respective
\* rule set exactly the set of distinct values in counts: nothing of the
\* previous set stays unless it is in counts, duplicates collapse, an empty
\* array gives the empty set, and the other rule set is not changed.
C13_SettersReplaceWholesale ==
    /\ lastOp.name = "setBirthRule" =>
          /\ IsSetOf(birthRule, lastOp.counts)
          /\ lastOp.counts = <<>> => getBirthRule(birthRule) = <<>>
          /\ survivalRule = pre.survivalRule
    /\ lastOp.name = "setSurvivalRule" =>
          /\ IsSetOf(survivalRule, lastOp.counts)
          /\ lastOp.counts = <<>> => getSurvivalRule(survivalRule) = <<>>
          /\ birthRule = pre.birthRule

\* setBirthRule with a duplicated count, on a birth set that held a count
\* the array lacks, the survival set having been changed before
C13_Witness ==
    /\ lastOp.name = "setBirthRule"
    /\ Len(lastOp.counts) > Cardinality(Range(lastOp.counts))
    /\ Range(pre.birthRule) \ Range(lastOp.counts) # {}
    /\ Range(pre.birthRule) \cap Range(lastOp.counts) # {}
    /\ survivalRule # DefaultSurvivalRule

\* the grid one generation after g under birth counts B and survival counts S
StepOf(g, B, S) ==
    [r \in DOMAIN g |-> [c \in DOMAIN g[r] |->
        LET n == LiveNeighbours(g, <<r, c>>)
        IN  IF g[r][c] THEN n \in S ELSE n \in B]]

\* C14: a call to setBirthRule or setSurvivalRule leaves every cell of the
\* grid unchanged, and the first nextGeneration() after the call is computed
\* entirely with the new sets: no cell of that step is evaluated against
\* the sets as they were before the call.
C14_RuleChangeTakesEffectNextStep ==
    /\ lastOp.name \in {"setBirthRule", "setSurvivalRule"} => grid = pre.grid
    /\ lastOp.name = "nextGenerationAfterRuleChange" =>
          grid = StepOf(pre.grid,
                        IF lastOp.setter = "setBirthRule"
                        THEN Range(lastOp.counts) ELSE Range(pre.birthRule),
                        IF lastOp.setter = "setSurvivalRule"
                        THEN Range(lastOp.counts) ELSE Range(pre.survivalRule))

\* a survival set changed on a grid with live cells, and a step after it
\* that differs, in a cell alive before, from the step the old sets give
C14_Witness ==
    /\ lastOp.name = "nextGenerationAfterRuleChange"
    /\ lastOp.setter = "setSurvivalRule"
    /\ \E p \in Live(pre.grid) :
          grid[p[1]][p[2]] #
             StepOf(pre.grid, Range(pre.birthRule), Range(pre.survivalRule))[p[1]][p[2]]
    /\ \E p \in Cells : ~pre.grid[p[1]][p[2]] /\ grid[p[1]][p[2]]

\* C15: two engines of the same dimensions whose grids are equal and whose
\* birth and survival sets hold the same counts, whatever sequences of calls
\* brought each of them there, have identical grids after each of them
\* performs nextGeneration().
C15_NextGenerationDeterministic ==
    (/\ Stepped
     /\ twin.stepped
     /\ pre.grid = twin.pre.grid
     /\ Range(pre.birthRule) = Range(twin.pre.birthRule)
     /\ Range(pre.survivalRule) = Range(twin.pre.survivalRule)) =>
        grid = twin.grid

\* both engines stepped from the same grid and the same sets, the sets
\* having been filled in different orders, and the step changed the grid
C15_Witness ==
    /\ Stepped
    /\ twin.stepped
    /\ pre.grid = twin.pre.grid
    /\ Range(pre.birthRule) = Range(twin.pre.birthRule)
    /\ Range(pre.survivalRule) = Range(twin.pre.survivalRule)
    /\ pre.survivalRule # twin.pre.survivalRule
    /\ grid # pre.grid
    /\ Live(grid) # {}
    /\ grid = twin.grid

\* C16: a newly constructed engine GameOfLife(rows, cols), rows and cols
\* positive, has a rows x cols grid in which every cell is dead (population
\* 0), birth set {3} and survival set {2, 3}.
C16_ConstructorDefaults ==
    lastOp.name = "constructor" =>
        /\ getDimensions(rows, cols) = [rows |-> lastOp.rows, cols |-> lastOp.cols]
        /\ IsGrid(grid, lastOp.rows, lastOp.cols)
        /\ Live(grid) = {}
        /\ getPopulation(grid, rows, cols) = 0
        /\ Range(birthRule) = {3}
        /\ Range(survivalRule) = {2, 3}
        /\ getBirthRule(birthRule) = <<3>>
        /\ getSurvivalRule(survivalRule) = <<2, 3>>

\* an engine constructed with more than one row and column and with other
\* dimensions than the one before it, which had live cells and other rules
C16_Witness ==
    /\ lastOp.name = "constructor"
    /\ rows > 1
    /\ cols > 1
    /\ <<pre.rows, pre.cols>> # <<rows, cols>>
    /\ Live(pre.grid) # {}
    /\ pre.birthRule # DefaultBirthRule
    /\ pre.survivalRule # DefaultSurvivalRule

\* C17: through any sequence of engine operations the dimensions stay the
\* ones given at construction: no operation changes rows or cols,
\* getDimensions() returns them, and the stored grid has exactly rows rows
\* of exactly cols boolean cells each.
C17_DimensionsNeverChange ==
    /\ [](/\ IsGrid(grid, rows, cols)
          /\ lastOp.name = "getDimensions" =>
                (ret = [rows |-> rows, cols |-> cols] /\ EngineUnchanged))
    /\ [][rows' = rows /\ cols' = cols]_vars

\* getDimensions() on a grid with more columns than rows, after calls that
\* left live cells and changed rules
C17_Witness ==
    /\ lastOp.name = "getDimensions"
    /\ ret.rows < ret.cols
    /\ Live(grid) # {}
    /\ Live(grid) # Cells
    /\ birthRule # DefaultBirthRule

\* C18: under any sequence of speed-slider inputs and ArrowUp / ArrowDown
\* key presses the simulation rate stays within 1 to 60 generations per
\* second: 1000/60 ms <= frameInterval <= 1000 ms.
C18_SpeedWithinOneToSixtyFps ==
    /\ ~FractionLess(frameInterval, Fraction(1000, 60))
    /\ ~FractionLess(Fraction(1000, 1), frameInterval)

\* C19: randomize(probability) completes for every probability, also one
\* outside [0, 1], and leaves rules and dimensions unchanged; with
\* probability <= 0 every cell is dead afterwards and with probability >= 1
\* every cell is alive afterwards, whatever the grid held before.
C19_RandomizeTotal ==
    lastOp.name = "randomize" =>
        /\ IsGrid(grid, rows, cols)
        /\ birthRule = pre.birthRule
        /\ survivalRule = pre.survivalRule
        /\ getDimensions(rows, cols) = getDimensions(pre.rows, pre.cols)
        /\ lastOp.percent <= 0 => Live(grid) = {}
        /\ lastOp.percent >= 100 => Live(grid) = Cells

\* randomize with a negative probability on a grid that had live cells
C19_Witness ==
    /\ lastOp.name = "randomize"
    /\ lastOp.percent < 0
    /\ Live(pre.grid) # {}
    /\ Live(grid) = {}
    /\ survivalRule # DefaultSurvivalRule

\* p lies in the first or last row, and in the first or last column
IsCorner(p) == p[1] \in {0, rows - 1} /\ p[2] \in {0, cols - 1}

\* p lies in the first or last row, or in the first or last column
IsOnEdge(p) == p[1] \in {0, rows - 1} \/ p[2] \in {0, cols - 1}

\* C20: for every in-bounds cell the neighbour count nextGeneration uses is
\* the number of live in-bounds cells among its 8 Moore neighbours, with
\* positions outside the grid counted as dead and no wrap-around; so it is
\* in 0..8, at most 5 for an edge cell, at most 3 for a corner cell, and
\* counting changes no cell.
C20_NeighbourCountBounded ==
    lastOp.name = "countNeighbors" =>
        LET p == <<lastOp.row, lastOp.col>>
        IN  /\ ret = LiveNeighbours(pre.grid, p)
            /\ ret \in 0..8
            /\ IsOnEdge(p) => ret <= 5
            /\ IsCorner(p) => ret <= 3
            /\ EngineUnchanged

\* the count of a corner cell of a 3 x 3 grid whose cells are all alive
C20_Witness ==
    /\ lastOp.name = "countNeighbors"
    /\ rows = 3
    /\ cols = 3
    /\ IsCorner(<<lastOp.row, lastOp.col>>)
    /\ Live(grid) = Cells
    /\ ret = 3

-----------------------------------------------------------------------------
\* C22: under any interleaving of start, stop, step, clear, randomize, size
\* changes, space key toggles and animation frame callbacks, at most one
\* animation frame callback is pending, one is pending between events
\* exactly when isRunning is true, and gameLoop calls nextGeneration only
\* while isRunning is true.
C22_OneFrameWhileRunning ==
    /\ Cardinality(page.frames) <= 1
    /\ (page.frames # {}) <=> controller.isRunning
    /\ (lastOp.name \in {"frame", "start", "space"} /\ lastOp.calls > 0)
           => controller.isRunning
    /\ (lastOp.name = "frame" /\ lastOp.calls > 0) => pre.controller.isRunning

\* a frame callback ran while the loop was running, stepped the engine and
\* requested the next frame
C22_Witness ==
    /\ lastOp.name = "frame"
    /\ lastOp.calls = 1
    /\ pre.controller.isRunning
    /\ pre.page.frames = {pre.controller.animationId}
    /\ page.frames = {controller.animationId}
    /\ grid = nextGeneration(pre.grid, rows, cols, birthRule, survivalRule)

\* C24: the generation counter is the number of nextGeneration() calls since
\* the last reset: clear, randomize and the size slider set it to 0, every
\* nextGeneration() call (step button or key, or a loop frame) adds one, and
\* every other handler leaves it unchanged.
C24_GenerationCountsSteps ==
    lastOp.name # "none" =>
        /\ lastOp.name \in {"clear", "randomize", "updateGridSize"}
               => controller.generation = 0 /\ lastOp.calls = 0
        /\ lastOp.name = "step"
               => controller.generation = pre.controller.generation + 1 /\ lastOp.calls = 1
        /\ lastOp.name = "frame"
               => controller.generation = pre.controller.generation + lastOp.calls
        /\ lastOp.name \notin {"clear", "randomize", "updateGridSize", "step", "frame"}
               => controller.generation = pre.controller.generation /\ lastOp.calls = 0

\* a due frame of the running loop counted a generation after an earlier one
C24_Witness ==
    /\ lastOp.name = "frame"
    /\ lastOp.calls = 1
    /\ pre.controller.generation = 1
    /\ controller.generation = 2

-----------------------------------------------------------------------------
\* C23: resizeGrid(rows, cols) yields a new engine of rows x cols cells in
\* which cell (r, c) is alive iff r < min(old rows, rows), c < min(old
\* cols, cols) and the cell was alive in the old engine, every cell outside
\* the overlap being dead; a drag of a resize handle keeps both new
\* dimensions within 10..200.
C23_ResizeKeepsOverlap ==
    (lastOp.name = "resizeMove" /\ lastOp.resized) =>
        LET minRows == IF pre.rows < rows THEN pre.rows ELSE rows
            minCols == IF pre.cols < cols THEN pre.cols ELSE cols
        IN  /\ IsGrid(grid, rows, cols)
            /\ \A r \in 0..(rows - 1), c \in 0..(cols - 1) :
                   grid[r][c] <=> (r < minRows /\ c < minCols /\ pre.grid[r][c])
            /\ rows \in MinDragSize..MaxDragSize
            /\ cols \in MinDragSize..MaxDragSize
            /\ <<rows, cols>> # <<pre.rows, pre.cols>>

\* a drag made the grid shorter and wider: a live cell of the overlap was
\* kept, one below it was dropped, and the new columns are dead
C23_Witness ==
    /\ lastOp.name = "resizeMove"
    /\ lastOp.resized
    /\ rows < pre.rows
    /\ cols > pre.cols
    /\ \E p \in Live(pre.grid) : p[1] < rows /\ grid[p[1]][p[2]]
    /\ \E p \in Live(pre.grid) : p[1] >= rows
    /\ Live(grid) # {}

-----------------------------------------------------------------------------
\* C21: after any controller actions the birth and survival sets of the
\* controller's current engine are those last chosen through the rule
\* controls (a preset or the checkboxes), or the defaults when none was
\* chosen; updateGridSize and resizeGrid do not change the rules.
C21_RulesFollowRuleControls ==
    /\ Range(birthRule) = page.birthChosen
    /\ Range(survivalRule) = page.survivalChosen

====
